---- MODULE Spec2Model ----
(***************************************************************************)
(* A model of the label core of react-wysiwyg-labels: the placeholder      *)
(* resolver and the variable substitution pass (core/variableManager.js),  *)
(* the ZPL / EPL / DPL code generators and the barcode helpers             *)
(* (core/codeGenerators.js), and the designer's reducer with its auto-save *)
(* effect (core/LabelDesignerContext.js).                                  *)
(*                                                                         *)
(* JavaScript strings are sequences of one-character strings, so that     *)
(* scanning, splitting, trimming, padding and case mapping are computed    *)
(* character by character as the code's string methods compute them.      *)
(* JavaScript numbers are fixed-point values with one decimal: the        *)
(* integer t stands for the number t/10.                                   *)
(***************************************************************************)
EXTENDS Integers, Sequences, FiniteSets, TLC

VARIABLES
    text,        \* the text handed to replaceVariablePlaceholders
    variables,   \* the bindings object (own properties: name -> value)
    result,      \* what the last resolver call returned (or threw)
    pc,          \* "ready" before the call, "done" after it
    heap,        \* the arrays that exist: reference -> list of elements
    processed,   \* reference of the array the last processVariables call returned (0: none)
    output,      \* the command stream the last generator call returned
    lastCall,    \* the last call made on the document: operation, caller, argument
    symbol,      \* the symbol key handed to calculateBarcodeChecksum ("" when none is)
    state,       \* the state of the designer's reducer
    timer,       \* TRUE while the auto-save timeout of the provider is pending
    now,         \* Date.now()
    session      \* what the user did last, and what the editor showed before it

vars == <<text, variables, result, pc, heap, processed, output, lastCall, symbol, state, timer, now, session>>

-----------------------------------------------------------------------------
(* Strings                                                                 *)

\* The characters of a string literal, one per element.
Chars(s) == [i \in 1..Len(s) |-> SubSeq(s, i, i)]

LowerLetters == Chars("abcdefghijklmnopqrstuvwxyz")
UpperLetters == Chars("ABCDEFGHIJKLMNOPQRSTUVWXYZ")
Digits == Chars("0123456789")

Range(f) == {f[i] : i \in DOMAIN f}

IndexOf(c, s) == CHOOSE i \in 1..Len(s) : s[i] = c

\* String.prototype.toUpperCase / toLowerCase, character by character.
UpperChar(c) == IF c \in Range(LowerLetters) THEN UpperLetters[IndexOf(c, LowerLetters)] ELSE c
LowerChar(c) == IF c \in Range(UpperLetters) THEN LowerLetters[IndexOf(c, UpperLetters)] ELSE c
ToUpperCase(s) == [i \in 1..Len(s) |-> UpperChar(s[i])]
ToLowerCase(s) == [i \in 1..Len(s) |-> LowerChar(s[i])]

\* The regular expression classes \s, \w and \S over the model's alphabet.
IsSpace(c) == c = " "
IsWordChar(c) == c \in Range(LowerLetters) \cup Range(UpperLetters) \cup Range(Digits) \cup {"_"}

\* s.startsWith(p)
StartsWith(s, p) == Len(s) >= Len(p) /\ SubSeq(s, 1, Len(p)) = p

\* String.prototype.trim
RECURSIVE TrimStart(_)
TrimStart(s) == IF s # <<>> /\ IsSpace(Head(s)) THEN TrimStart(Tail(s)) ELSE s
RECURSIVE TrimEnd(_)
TrimEnd(s) == IF s # <<>> /\ IsSpace(s[Len(s)]) THEN TrimEnd(SubSeq(s, 1, Len(s) - 1)) ELSE s
Trim(s) == TrimEnd(TrimStart(s))

\* s.split(sep) for a one-character separator: the list of the pieces.
RECURSIVE SplitFrom(_, _, _, _)
SplitFrom(s, sep, i, cur) ==
    IF i > Len(s) THEN <<cur>>
    ELSE IF s[i] = sep THEN <<cur>> \o SplitFrom(s, sep, i + 1, <<>>)
    ELSE SplitFrom(s, sep, i + 1, Append(cur, s[i]))
Split(s, sep) == SplitFrom(s, sep, 1, <<>>)

\* s.replace(new RegExp(pattern, 'g'), replacement) for a literal pattern:
\* non-overlapping occurrences, left to right; the replacement is not rescanned
\* by this call.
RECURSIVE ReplaceAll(_, _, _)
ReplaceAll(s, pattern, replacement) ==
    IF Len(s) < Len(pattern) THEN s
    ELSE IF StartsWith(s, pattern)
         THEN replacement \o ReplaceAll(SubSeq(s, Len(pattern) + 1, Len(s)), pattern, replacement)
         ELSE <<Head(s)>> \o ReplaceAll(Tail(s), pattern, replacement)

\* s.padStart(n, fill) / s.padEnd(n, ' ') for a one-character fill.
Repeat(c, n) == [i \in 1..n |-> c]
PadStart(s, n, fill) == IF n <= Len(s) THEN s ELSE Repeat(fill, n - Len(s)) \o s
PadEnd(s, n, fill) == IF n <= Len(s) THEN s ELSE s \o Repeat(fill, n - Len(s))

\* s.substring(0, n): a negative n counts as 0.
Substring0(s, n) == SubSeq(s, 1, IF n < 0 THEN 0 ELSE IF n > Len(s) THEN Len(s) ELSE n)

-----------------------------------------------------------------------------
(* Numbers                                                                 *)

Abs(n) == IF n < 0 THEN -n ELSE n

\* The decimal digits of a natural number.
RECURSIVE NatToString(_)
NatToString(n) == IF n < 10 THEN <<Digits[n + 1]>> ELSE NatToString(n \div 10) \o <<Digits[(n % 10) + 1]>>

\* Number.prototype.toString of an integer.
IntToString(n) == IF n < 0 THEN <<"-">> \o NatToString(-n) ELSE NatToString(n)

\* Number.prototype.toString of the number t/10.
NumberToString(t) ==
    (IF t < 0 THEN <<"-">> ELSE <<>>)
    \o NatToString(Abs(t) \div 10)
    \o (IF Abs(t) % 10 = 0 THEN <<>> ELSE <<".", Digits[(Abs(t) % 10) + 1]>>)

\* parseInt(s): leading blanks, an optional sign, then the longest run of
\* digits; NaN when there is no digit.
RECURSIVE DigitRun(_)
DigitRun(s) == IF s # <<>> /\ Head(s) \in Range(Digits) THEN <<Head(s)>> \o DigitRun(Tail(s)) ELSE <<>>
RECURSIVE DigitsValue(_)
DigitsValue(ds) == IF ds = <<>> THEN 0 ELSE 10 * DigitsValue(SubSeq(ds, 1, Len(ds) - 1)) + (IndexOf(ds[Len(ds)], Digits) - 1)
ParseInt(s) ==
    LET t == TrimStart(s)
        neg == t # <<>> /\ Head(t) = "-"
        body == IF t # <<>> /\ Head(t) \in {"-", "+"} THEN Tail(t) ELSE t
        run == DigitRun(body)
    IN  IF run = <<>> THEN [nan |-> TRUE, n |-> 0]
        ELSE [nan |-> FALSE, n |-> IF neg THEN -DigitsValue(run) ELSE DigitsValue(run)]

\* parseInt(...) || 0
ParseIntOrZero(s) == IF ParseInt(s).nan THEN 0 ELSE ParseInt(s).n

-----------------------------------------------------------------------------
(* JavaScript values                                                       *)
(*                                                                         *)
(* A value is [k |-> kind, v |-> payload]: "undefined", "null", "number"   *)
(* (v in tenths), "boolean", "string" (v a character sequence), "date"     *)
(* (v the local-time fields of a Date instance) and "function" (v the      *)
(* text its toString() gives).                                             *)

UndefinedValue == [k |-> "undefined", v |-> 0]
NullValue == [k |-> "null", v |-> 0]
NumberValue(t) == [k |-> "number", v |-> t]
BooleanValue(b) == [k |-> "boolean", v |-> b]
StringValue(s) == [k |-> "string", v |-> s]
DateValue(y, mo, d, h, mi, s) ==
    [k |-> "date", v |-> [valid |-> TRUE, year |-> y, month |-> mo, date |-> d, hours |-> h, minutes |-> mi, seconds |-> s]]
InvalidDate == [k |-> "date", v |-> [valid |-> FALSE, year |-> 0, month |-> 1, date |-> 1, hours |-> 0, minutes |-> 0, seconds |-> 0]]
FunctionValue(name) == [k |-> "function", v |-> Chars("function ") \o name \o Chars("() { [native code] }")]

\* An absent argument or array slot (the format of `{{name}}`), and the
\* outcome of a call that threw a RangeError. Neither is a character sequence.
Undefined == <<"#undefined">>
RangeError == <<"#RangeError">>

\* !s for a string or undefined
Falsy(s) == s = Undefined \/ s = <<>>

\* The members every object literal inherits from Object.prototype: a property
\* read `variables[name]` finds them when the object has no own property `name`.
ObjectPrototypeMembers ==
    {Chars("constructor"), Chars("toString"), Chars("valueOf"), Chars("hasOwnProperty"),
     Chars("isPrototypeOf"), Chars("propertyIsEnumerable"), Chars("toLocaleString")}

\* variables[variableName]
GetProperty(object, name) ==
    IF name \in DOMAIN object THEN object[name]
    ELSE IF name \in ObjectPrototypeMembers
         THEN FunctionValue(IF name = Chars("constructor") THEN Chars("Object") ELSE name)
         ELSE UndefinedValue

\* value.toString()
ValueToString(value) ==
    CASE value.k = "string" -> value.v
      [] value.k = "number" -> NumberToString(value.v)
      [] value.k = "boolean" -> IF value.v THEN Chars("true") ELSE Chars("false")
      [] value.k = "function" -> value.v
      [] value.k = "date" -> Chars("Invalid Date")   \* read for an invalid Date only

-----------------------------------------------------------------------------
(* Dates                                                                   *)

IsLeapYear(y) == (y % 4 = 0 /\ y % 100 # 0) \/ y % 400 = 0
DaysInMonth(y, mo) ==
    IF mo = 2 THEN (IF IsLeapYear(y) THEN 29 ELSE 28)
    ELSE IF mo \in {4, 6, 9, 11} THEN 30 ELSE 31

AllDigits(s) == \A i \in 1..Len(s) : s[i] \in Range(Digits)

\* Date.parse(s) on the date-only ISO form YYYY-MM-DD, the form ECMAScript
\* defines; any other string of the model's inputs (letters, blanks and
\* punctuation without digits) is no date and gives NaN. The parsed instant is
\* read back with the local-time getters; the local zone is taken to be UTC.
DateParse(s) ==
    IF /\ Len(s) = 10 /\ s[5] = "-" /\ s[8] = "-"
       /\ AllDigits(SubSeq(s, 1, 4)) /\ AllDigits(SubSeq(s, 6, 7)) /\ AllDigits(SubSeq(s, 9, 10))
       /\ DigitsValue(SubSeq(s, 6, 7)) \in 1..12
       /\ DigitsValue(SubSeq(s, 9, 10)) \in 1..DaysInMonth(DigitsValue(SubSeq(s, 1, 4)), DigitsValue(SubSeq(s, 6, 7)))
    THEN [nan |-> FALSE,
          date |-> DateValue(DigitsValue(SubSeq(s, 1, 4)), DigitsValue(SubSeq(s, 6, 7)),
                             DigitsValue(SubSeq(s, 9, 10)), 0, 0, 0).v]
    ELSE [nan |-> TRUE, date |-> InvalidDate.v]

\* date.toLocaleDateString('en', { month: 'long' })
MonthNames ==
    <<Chars("January"), Chars("February"), Chars("March"), Chars("April"), Chars("May"),
      Chars("June"), Chars("July"), Chars("August"), Chars("September"), Chars("October"),
      Chars("November"), Chars("December")>>
MonthLong(mo) == MonthNames[mo]
\* date.toLocaleDateString('en', { month: 'short' })
MonthShort(mo) == SubSeq(MonthNames[mo], 1, 3)

\* The formatMap object literal, as Object.entries lists it: in the order the
\* keys are written.
formatMap(date) ==
    <<  <<Chars("YYYY"), NatToString(date.year)>>,
        <<Chars("YY"), LET y == NatToString(date.year) IN SubSeq(y, IF Len(y) > 2 THEN Len(y) - 1 ELSE 1, Len(y))>>,
        <<Chars("MM"), PadStart(NatToString(date.month), 2, "0")>>,
        <<Chars("M"), NatToString(date.month)>>,
        <<Chars("MMM"), MonthShort(date.month)>>,
        <<Chars("MMMM"), MonthLong(date.month)>>,
        <<Chars("DD"), PadStart(NatToString(date.date), 2, "0")>>,
        <<Chars("D"), NatToString(date.date)>>,
        <<Chars("HH"), PadStart(NatToString(date.hours), 2, "0")>>,
        <<Chars("H"), NatToString(date.hours)>>,
        <<Chars("mm"), PadStart(NatToString(date.minutes), 2, "0")>>,
        <<Chars("m"), NatToString(date.minutes)>>,
        <<Chars("ss"), PadStart(NatToString(date.seconds), 2, "0")>>,
        <<Chars("s"), NatToString(date.seconds)>>  >>

\* The forEach over Object.entries(formatMap): one global replace per entry,
\* each on the result of the one before.
RECURSIVE ReplaceEntries(_, _, _)
ReplaceEntries(formattedDate, entries, i) ==
    IF i > Len(entries) THEN formattedDate
    ELSE ReplaceEntries(ReplaceAll(formattedDate, entries[i][1], entries[i][2]), entries, i + 1)

DefaultDateFormat == Chars("MM/DD/YYYY")

formatDateValue(value, format) ==
    LET date == IF value.k = "date" THEN value.v ELSE DateParse(value.v).date
    IN  IF ~date.valid THEN ValueToString(value)
        ELSE ReplaceEntries(IF Falsy(format) THEN DefaultDateFormat ELSE format, formatMap(date), 1)

-----------------------------------------------------------------------------
(* Number, boolean and string formatting                                   *)

\* value.toFixed(digits) for the number t/10: a RangeError outside 0..100;
\* with no decimals the tie x.5 rounds away from zero; the decimals after the
\* first are zeros (exact for the small digit counts of the model's inputs).
ToFixed(t, digits) ==
    IF digits < 0 \/ digits > 100 THEN RangeError
    ELSE (IF t < 0 THEN <<"-">> ELSE <<>>)
         \o (IF digits = 0 THEN NatToString((Abs(t) + 5) \div 10)
             ELSE NatToString(Abs(t) \div 10) \o <<".", Digits[(Abs(t) % 10) + 1]>> \o Repeat("0", digits - 1))

\* Digit grouping of the en-US locale.
RECURSIVE GroupThousands(_)
GroupThousands(n) ==
    IF n < 1000 THEN NatToString(n)
    ELSE GroupThousands(n \div 1000) \o <<",">> \o PadStart(NatToString(n % 1000), 3, "0")

\* new Intl.NumberFormat('en-US', { style: 'currency', currency: 'USD' }).format(value)
FormatCurrency(t) ==
    (IF t < 0 THEN <<"-">> ELSE <<>>) \o <<"$">> \o GroupThousands(Abs(t) \div 10)
    \o <<".", Digits[(Abs(t) % 10) + 1], "0">>

\* (value * 100).toFixed(1) + '%'
FormatPercent(t) == ToFixed(t * 100, 1) \o <<"%">>

\* fmt.split(':')[1]
AfterColon(fmt) == Split(fmt, ":")[2]

\* format.split(',').map(f => f.trim())
Formats(format) == LET parts == Split(format, ",") IN [i \in 1..Len(parts) |-> Trim(parts[i])]

\* A loop that lets every recognised entry format the number, so that the last
\* one decides (instead of returning at the first).
RECURSIVE NumberLoopLastWins(_, _, _)
NumberLoopLastWins(t, formats, i) ==
    IF i > Len(formats) THEN NumberToString(t)
    ELSE LET fmt == formats[i]
             later == NumberLoopLastWins(t, formats, i + 1)
             anyLater == \E j \in (i + 1)..Len(formats) :
                            \/ StartsWith(formats[j], Chars("decimal:")) \/ formats[j] = Chars("currency")
                            \/ formats[j] = Chars("percent") \/ StartsWith(formats[j], Chars("pad:"))
         IN  IF anyLater THEN later
             ELSE IF StartsWith(fmt, Chars("decimal:")) THEN ToFixed(t, ParseIntOrZero(AfterColon(fmt)))
             ELSE IF fmt = Chars("currency") THEN FormatCurrency(t)
             ELSE IF fmt = Chars("percent") THEN FormatPercent(t)
             ELSE IF StartsWith(fmt, Chars("pad:")) THEN PadStart(NumberToString(t), ParseIntOrZero(AfterColon(fmt)), "0")
             ELSE later

\* The for loop of formatNumberValue: the first entry one of the four tests
\* accepts returns; the others fall through to the next entry.
RECURSIVE NumberLoop(_, _, _)
NumberLoop(t, formats, i) ==
    IF i > Len(formats) THEN NumberToString(t)
    ELSE LET fmt == formats[i] IN
         IF StartsWith(fmt, Chars("decimal:")) THEN ToFixed(t, ParseIntOrZero(AfterColon(fmt)))
         ELSE IF fmt = Chars("currency") THEN FormatCurrency(t)
         ELSE IF fmt = Chars("percent") THEN FormatPercent(t)
         ELSE IF StartsWith(fmt, Chars("pad:")) THEN PadStart(NumberToString(t), ParseIntOrZero(AfterColon(fmt)), "0")
         ELSE NumberLoop(t, formats, i + 1)

formatNumberValue(value, format) ==
    IF Falsy(format) THEN NumberToString(value.v)
    ELSE NumberLoop(value.v, Formats(format), 1)

\* x || fallback for a string or undefined
OrElse(x, fallback) == IF Falsy(x) THEN fallback ELSE x

formatBooleanValue(value, format) ==
    IF Falsy(format) THEN (IF value.v THEN Chars("true") ELSE Chars("false"))
    ELSE LET parts == Split(format, "|")
             trueValue == parts[1]
             falseValue == IF Len(parts) >= 2 THEN parts[2] ELSE Undefined
         IN  IF value.v THEN OrElse(trueValue, Chars("true")) ELSE OrElse(falseValue, Chars("false"))

\* result.replace(/\w\S*/g, txt => txt.charAt(0).toUpperCase() + txt.substr(1).toLowerCase())
RECURSIVE NonSpaceRun(_)
NonSpaceRun(s) == IF s # <<>> /\ ~IsSpace(Head(s)) THEN 1 + NonSpaceRun(Tail(s)) ELSE 0
RECURSIVE TitleCase(_)
TitleCase(s) ==
    IF s = <<>> THEN <<>>
    ELSE IF IsWordChar(Head(s))
         THEN LET n == NonSpaceRun(s) IN
              <<UpperChar(Head(s))>> \o ToLowerCase(SubSeq(s, 2, n)) \o TitleCase(SubSeq(s, n + 1, Len(s)))
         ELSE <<Head(s)>> \o TitleCase(Tail(s))

\* The default branch of the switch: truncate:N, then pad:N.
Truncate(res, fmt) ==
    IF StartsWith(fmt, Chars("truncate:"))
    THEN LET length == ParseIntOrZero(AfterColon(fmt)) IN
         IF Len(res) > length THEN Substring0(res, length) \o Chars("...") ELSE res
    ELSE res
Pad(res, fmt) ==
    IF StartsWith(fmt, Chars("pad:")) THEN PadEnd(res, ParseIntOrZero(AfterColon(fmt)), " ") ELSE res

\* One pass of the switch on fmt.
StringCase(res, fmt) ==
    CASE fmt = Chars("upper") -> ToUpperCase(res)
      [] fmt = Chars("lower") -> ToLowerCase(res)
      [] fmt = Chars("title") -> TitleCase(res)
      [] fmt = Chars("trim") -> Trim(res)
      [] OTHER -> Pad(Truncate(res, fmt), fmt)

\* A loop that returns after the first entry, as the number loop does.
StringLoopFirstOnly(res, formats, i) ==
    IF i > Len(formats) THEN res ELSE StringCase(res, formats[i])

RECURSIVE StringLoop(_, _, _)
StringLoop(res, formats, i) ==
    IF i > Len(formats) THEN res ELSE StringLoop(StringCase(res, formats[i]), formats, i + 1)

formatStringValue(value, format) == StringLoop(value, Formats(format), 1)

\* A test that takes Date instances only for dates.
IsDateInstance(value) == value.k = "date"

\* value instanceof Date || (typeof value === 'string' && !isNaN(Date.parse(value)))
IsDateLike(value) == value.k = "date" \/ (value.k = "string" /\ ~DateParse(value.v).nan)

formatVariableValue(value, format) ==
    IF value.k \in {"null", "undefined"} THEN <<>>
    ELSE IF IsDateLike(value) THEN formatDateValue(value, format)
    ELSE IF value.k = "number" THEN formatNumberValue(value, format)
    ELSE IF value.k = "boolean" THEN formatBooleanValue(value, format)
    ELSE IF ~Falsy(format) THEN formatStringValue(ValueToString(value), format)
    ELSE ValueToString(value)

-----------------------------------------------------------------------------
(* The resolver                                                            *)

\* The length of the match of /\{\{([^}]+)\}\}/ at the start of s, 0 when there
\* is none: `{{`, a non-empty run without `}`, then `}}`.
RECURSIVE RunWithoutBrace(_)
RunWithoutBrace(s) == IF s # <<>> /\ Head(s) # "}" THEN 1 + RunWithoutBrace(Tail(s)) ELSE 0
MatchLength(s) ==
    IF Len(s) >= 5 /\ s[1] = "{" /\ s[2] = "{"
    THEN LET n == RunWithoutBrace(SubSeq(s, 3, Len(s))) IN
         IF n >= 1 /\ Len(s) >= n + 4 /\ s[n + 3] = "}" /\ s[n + 4] = "}" THEN n + 4 ELSE 0
    ELSE 0

\* The pieces the global replace cuts a text into, left to right: the matches
\* (with their capture group) and the characters between them.
RECURSIVE Pieces(_)
Pieces(s) ==
    IF s = <<>> THEN <<>>
    ELSE LET n == MatchLength(s) IN
         IF n > 0
         THEN <<[isMatch |-> TRUE, match |-> SubSeq(s, 1, n), placeholder |-> SubSeq(s, 3, n - 2)]>>
              \o Pieces(SubSeq(s, n + 1, Len(s)))
         ELSE <<[isMatch |-> FALSE, match |-> <<Head(s)>>, placeholder |-> <<>>]>> \o Pieces(Tail(s))

\* const [variableName, format] = placeholder.split('|').map(s => s.trim())
VariableName(placeholder) == Trim(Split(placeholder, "|")[1])
Format(placeholder) ==
    LET parts == Split(placeholder, "|") IN IF Len(parts) >= 2 THEN Trim(parts[2]) ELSE Undefined

\* The replace callback (match, placeholder) => ...
Replacement(match, placeholder, bindings) ==
    LET variable == GetProperty(bindings, VariableName(placeholder))
    IN  IF variable.k \in {"undefined", "null"} THEN match
        ELSE formatVariableValue(variable, Format(placeholder))

\* The concatenation of a list of strings; a callback that threw ends the call.
RECURSIVE Concat(_)
Concat(strings) ==
    IF strings = <<>> THEN <<>>
    ELSE IF Head(strings) = RangeError THEN RangeError
    ELSE LET rest == Concat(Tail(strings)) IN
         IF rest = RangeError THEN RangeError ELSE Head(strings) \o rest

\* What the replace puts in the place of each piece.
Replacements(pieces, bindings) ==
    [i \in 1..Len(pieces) |->
        IF pieces[i].isMatch THEN Replacement(pieces[i].match, pieces[i].placeholder, bindings)
        ELSE pieces[i].match]

replaceVariablePlaceholders(txt, bindings) ==
    IF txt = <<>> THEN txt ELSE Concat(Replacements(Pieces(txt), bindings))

-----------------------------------------------------------------------------
(* The variable substitution pass                                          *)
(*                                                                         *)
(* An element is a record of JavaScript values; its properties bag is a    *)
(* function from the property names it holds to their values.              *)

NaNValue == [k |-> "NaN", v |-> 0]

\* The truthiness test of `if (processed.text)`.
Truthy(value) ==
    CASE value.k \in {"undefined", "null", "NaN"} -> FALSE
      [] value.k = "number" -> value.v # 0
      [] value.k = "boolean" -> value.v
      [] value.k = "string" -> value.v # <<>>
      [] OTHER -> TRUE

\* properties.name, undefined when the bag has no such property
Prop(properties, name) == IF name \in DOMAIN properties THEN properties[name] ELSE UndefinedValue

\* replaceVariablePlaceholders on a property value: anything but a non-empty
\* string is returned as it is.
ResolveValue(value, bindings) ==
    IF value.k # "string" \/ value.v = <<>> THEN value
    ELSE LET r == replaceVariablePlaceholders(value.v, bindings) IN
         IF r = RangeError THEN [k |-> "throw", v |-> 0] ELSE StringValue(r)

\* The three text-bearing properties, in the order the code visits them.
TextBearing == <<"text", "data", "src">>

\* A pass that resolves text, data and src whether the bag holds them or not
\* (an absent one as the empty string).
processElementPropertiesAlways(properties, bindings) ==
    [name \in DOMAIN properties \cup Range(TextBearing) |->
        IF name \in Range(TextBearing)
        THEN ResolveValue(IF Truthy(Prop(properties, name)) THEN properties[name] ELSE StringValue(<<>>), bindings)
        ELSE properties[name]]

processElementProperties(properties, bindings) ==
    [name \in DOMAIN properties |->
        IF name \in Range(TextBearing) /\ Truthy(properties[name])
        THEN ResolveValue(properties[name], bindings)
        ELSE properties[name]]

\* { ...a, ...b }
SpreadMerge(a, b) == [name \in DOMAIN a \cup DOMAIN b |-> IF name \in DOMAIN b THEN b[name] ELSE a[name]]

Throws(properties) == \E name \in DOMAIN properties : properties[name].k = "throw"

\* elements.map(element => ({ ...element, properties: { ... } })): the list of
\* the new elements, and whether a resolver call threw instead.
processVariables(elems, bindings) ==
    LET mapped == [i \in 1..Len(elems) |->
                      [elems[i] EXCEPT !.properties =
                          SpreadMerge(elems[i].properties,
                                      processElementProperties(elems[i].properties, bindings))]]
    IN  [threw |-> \E i \in 1..Len(elems) : Throws(mapped[i].properties), elements |-> mapped]

-----------------------------------------------------------------------------
(* Arrays                                                                  *)

\* The array the caller holds as `elements`.
ElementsRef == 1

\* A reference no array of the heap has.
NewRef(h) == CHOOSE r \in 1..(Cardinality(DOMAIN h) + 1) : r \notin DOMAIN h

\* (a.zIndex || 0)
ZKey(element) == IF Truthy(element.zIndex) THEN element.zIndex.v ELSE 0

\* Array.prototype.sort with the comparator (a, b) => (a.zIndex || 0) - (b.zIndex || 0):
\* a stable sort, here by insertion from the left.
\* An insertion that moves an element before its equals (an unstable sort).
RECURSIVE InsertByZBeforeEquals(_, _)
InsertByZBeforeEquals(sorted, element) ==
    IF sorted = <<>> THEN <<element>>
    ELSE IF ZKey(sorted[Len(sorted)]) < ZKey(element) THEN Append(sorted, element)
    ELSE Append(InsertByZBeforeEquals(SubSeq(sorted, 1, Len(sorted) - 1), element), sorted[Len(sorted)])

RECURSIVE InsertByZ(_, _)
InsertByZ(sorted, element) ==
    IF sorted = <<>> THEN <<element>>
    ELSE IF ZKey(sorted[Len(sorted)]) <= ZKey(element) THEN Append(sorted, element)
    ELSE Append(InsertByZ(SubSeq(sorted, 1, Len(sorted) - 1), element), sorted[Len(sorted)])
RECURSIVE SortByZ(_)
SortByZ(array) ==
    IF array = <<>> THEN <<>>
    ELSE InsertByZ(SortByZ(SubSeq(array, 1, Len(array) - 1)), array[Len(array)])

\* const sortedElements = [...elements].sort(...): the spread makes a new
\* array, sort orders the array it is called on in place and returns it.
\* Gives the heap after the statement and the reference of sortedElements.
\* sort called on the array that was passed (no spread).
SortTargetInPlace(h, ref) == ref

\* The array sort is called on: the copy the spread made.
SortTarget(h, ref) == NewRef(h)
SortedCopy(h, ref) ==
    LET copy == NewRef(h)
        h1 == [r \in DOMAIN h \cup {copy} |-> IF r = copy THEN h[ref] ELSE h[r]]
        target == SortTarget(h, ref)
    IN  [heap |-> [h1 EXCEPT ![target] = SortByZ(h1[target])], sortedElements |-> target]

-----------------------------------------------------------------------------
(* Code generation: shared pieces                                          *)

NL == "\n"
Line(s) == s \o <<NL>>

\* `${value}` in a template literal
Str(value) ==
    CASE value.k = "string" -> value.v
      [] value.k = "number" -> NumberToString(value.v)
      [] value.k = "boolean" -> IF value.v THEN Chars("true") ELSE Chars("false")
      [] value.k = "NaN" -> Chars("NaN")
      [] value.k = "null" -> Chars("null")
      [] OTHER -> Chars("undefined")

\* The default of a destructuring pattern: used for undefined only.
Default(value, d) == IF value.k = "undefined" THEN d ELSE value

IsNumber(value) == value.k = "number"

\* Math.round(n / d) for integers n and d > 0: the nearest integer, a tie going up.
RoundRatio(n, d) == (2 * n + d) \div (2 * d)

\* `${Math.round(e)}` where e has the value n/d when all its operands are
\* numbers, and is NaN otherwise.
Rounded(operands, n, d) ==
    IF \A i \in 1..Len(operands) : IsNumber(operands[i]) THEN IntToString(RoundRatio(n, d)) ELSE Chars("NaN")

\* `${Math.round(value)}`
Round(value) == Rounded(<<value>>, value.v, 10)

Comma == <<",">>

\* orientationMap[rotation] || 'N'
Orientation(rotation) ==
    IF IsNumber(rotation) /\ rotation.v = 900 THEN "R"
    ELSE IF IsNumber(rotation) /\ rotation.v = 1800 THEN "I"
    ELSE IF IsNumber(rotation) /\ rotation.v = 2700 THEN "B"
    ELSE "N"

\* The table BARCODE_TYPES: symbol key -> command fragments.
BARCODE_TYPES ==
    [CODE128 |-> [zpl |-> "^BC", epl |-> "1"],   CODE39 |-> [zpl |-> "^B3", epl |-> "3"],
     EAN13 |-> [zpl |-> "^BE", epl |-> "E"],     EAN8 |-> [zpl |-> "^B8", epl |-> "E8"],
     UPC_A |-> [zpl |-> "^BU", epl |-> "UA"],    UPC_E |-> [zpl |-> "^B9", epl |-> "UE"],
     CODABAR |-> [zpl |-> "^BK", epl |-> "K"],   CODE93 |-> [zpl |-> "^BA", epl |-> "A"],
     CODE11 |-> [zpl |-> "^B1", epl |-> "1"],    MSI |-> [zpl |-> "^BM", epl |-> "M"],
     POSTNET |-> [zpl |-> "^BP", epl |-> "P"],   QR |-> [zpl |-> "^BQ", epl |-> "Q"],
     DATAMATRIX |-> [zpl |-> "^BX", epl |-> "X"], PDF417 |-> [zpl |-> "^B7", epl |-> "7"],
     MAXICODE |-> [zpl |-> "^BD", epl |-> "D"],  AZTEC |-> [zpl |-> "^BO", epl |-> "O"]]

\* The key a properties.type value names in the table; "" when it names none.
SymbolKey(type) ==
    IF type.k = "string" /\ \E key \in DOMAIN BARCODE_TYPES : Chars(key) = type.v
    THEN CHOOSE key \in DOMAIN BARCODE_TYPES : Chars(key) = type.v
    ELSE ""

IsString(value, literal) == value.k = "string" /\ value.v = Chars(literal)

-----------------------------------------------------------------------------
(* ZPL                                                                     *)

generateZPLText(element) ==
    LET p == element.properties
        fontSize == Prop(p, "fontSize")
        alignment == Default(Prop(p, "alignment"), StringValue(Chars("left")))
        rotation == Default(Prop(p, "rotation"), NumberValue(0))
        rh == RoundRatio(fontSize.v * 12, 100)
        rw == RoundRatio(fontSize.v, 10)
        fontHeight == IF IsNumber(fontSize) THEN IntToString(IF rh > 10 THEN rh ELSE 10) ELSE Chars("NaN")
        fontWidth == IF IsNumber(fontSize) THEN IntToString(IF rw > 8 THEN rw ELSE 8) ELSE Chars("NaN")
        zplFont == IF IsNumber(fontSize) /\ fontSize.v <= 80 THEN "0"
                   ELSE IF IsNumber(fontSize) /\ fontSize.v <= 120 THEN "A"
                   ELSE IF IsNumber(fontSize) /\ fontSize.v <= 160 THEN "B"
                   ELSE IF IsNumber(fontSize) /\ fontSize.v <= 240 THEN "D"
                   ELSE "E"
    IN  Chars("^FO") \o Round(element.x) \o Comma \o Round(element.y)
        \o Chars("^A") \o <<zplFont, Orientation(rotation)>> \o Comma \o fontHeight \o Comma \o fontWidth
        \o (IF IsString(alignment, "center") THEN Chars("^FB200,1,0,C,0")
            ELSE IF IsString(alignment, "right") THEN Chars("^FB200,1,0,R,0")
            ELSE <<>>)
        \o Line(Chars("^FD") \o Str(Prop(p, "text")) \o Chars("^FS"))

generateZPLLine(element) ==
    LET p == element.properties
        thickness == Default(Prop(p, "thickness"), NumberValue(20))
        color == Default(Prop(p, "color"), StringValue(Chars("#000000")))
        zplColor == IF IsString(color, "#FFFFFF") \/ IsString(color, "white") THEN "W" ELSE "B"
    IN  Line(Chars("^FO") \o Round(element.x) \o Comma \o Round(element.y)
             \o Chars("^GB") \o Round(element.width) \o Comma \o Round(thickness) \o Comma \o Round(thickness)
             \o Comma \o <<zplColor>> \o Chars("^FS"))

generateZPLBox(element) ==
    LET p == element.properties
        x == element.x
        width == element.width
        borderWidth == Default(Prop(p, "borderWidth"), NumberValue(20))
        borderColor == Default(Prop(p, "borderColor"), StringValue(Chars("#000000")))
        fillColor == Default(Prop(p, "fillColor"), StringValue(Chars("transparent")))
        cornerRadius == Default(Prop(p, "cornerRadius"), NumberValue(0))
        zplBorderColor == IF IsString(borderColor, "#FFFFFF") \/ IsString(borderColor, "white") THEN "W" ELSE "B"
        fillSuffix == IF ~IsString(fillColor, "transparent") /\ ~IsString(fillColor, "") THEN Chars(",B") ELSE <<>>
    IN  Line(Chars("^FO") \o Round(x) \o Comma \o Round(element.y)
             \o Chars("^GB") \o Round(width) \o Comma \o Round(element.height) \o Comma \o Round(borderWidth)
             \o Comma \o <<zplBorderColor>> \o fillSuffix \o Chars("^FS"))
        \o (IF IsNumber(cornerRadius) /\ cornerRadius.v > 0
            THEN Line(Chars("^FO") \o Rounded(<<x, cornerRadius>>, x.v + cornerRadius.v, 10) \o Comma \o Round(element.y)
                      \o Chars("^GB") \o Rounded(<<width, cornerRadius>>, width.v - 2 * cornerRadius.v, 10)
                      \o Comma \o Round(borderWidth) \o Comma \o Round(borderWidth)
                      \o Comma \o <<zplBorderColor>> \o Chars("^FS"))
            ELSE <<>>)

\* Math.min(width, height)
MinOf(a, b) == IF a.v <= b.v THEN a ELSE b

generateZPLCircle(element) ==
    LET p == element.properties
        borderWidth == Default(Prop(p, "borderWidth"), NumberValue(20))
        m == MinOf(element.width, element.height)          \* radius is m / 2
        sized == <<element.width, element.height>>
    IN  Line(Chars("^FO") \o Rounded(sized \o <<element.x>>, 2 * element.x.v + m.v, 20)
             \o Comma \o Rounded(sized \o <<element.y>>, 2 * element.y.v + m.v, 20)
             \o Chars("^GC") \o Rounded(sized, m.v, 20) \o Comma \o Round(borderWidth) \o Chars(",B^FS"))

generateZPLBarcode(element) ==
    LET p == element.properties
        type == Default(Prop(p, "type"), StringValue(Chars("CODE128")))
        showText == Default(Prop(p, "showText"), BooleanValue(TRUE))
        rotation == Default(Prop(p, "rotation"), NumberValue(0))
        key == SymbolKey(type)
    IN  IF key = "" THEN <<>>
        ELSE Chars("^FO") \o Round(element.x) \o Comma \o Round(element.y)
             \o Chars(BARCODE_TYPES[key].zpl) \o <<Orientation(rotation)>> \o Comma \o Round(element.height)
             \o (IF key \in {"QR", "DATAMATRIX"} THEN Chars(",Q,7,A,0,0")
                 ELSE Comma \o <<IF Truthy(showText) THEN "Y" ELSE "N">>)
             \o Line(Chars("^FD") \o Str(Prop(p, "data")) \o Chars("^FS"))

generateZPLImage(element) ==
    LET w == element.width
        h == element.height
    IN  IF ~Truthy(Prop(element.properties, "src")) THEN <<>>
        ELSE Line(Chars("^FO") \o Round(element.x) \o Comma \o Round(element.y)
                  \o Chars("^GFA,") \o Rounded(<<w, h>>, w.v * h.v, 100) \o Comma \o Rounded(<<w, h>>, w.v * h.v, 100)
                  \o Comma \o Rounded(<<w>>, w.v, 80) \o Chars(",<IMAGE_DATA>^FS"))

generateZPLElement(element) ==
    CASE element.type = "text" -> generateZPLText(element)
      [] element.type = "line" -> generateZPLLine(element)
      [] element.type = "box" -> generateZPLBox(element)
      [] element.type = "circle" -> generateZPLCircle(element)
      [] element.type = "image" -> generateZPLImage(element)
      [] element.type = "barcode" -> generateZPLBarcode(element)
      [] OTHER -> <<>>

\* sortedElements.forEach(element => { code += generate...Element(element) })
RECURSIVE Blocks(_, _)
Blocks(blocks, i) == IF i > Len(blocks) THEN <<>> ELSE blocks[i] \o Blocks(blocks, i + 1)

\* What generateZPL writes before and after the elements.
ZPLHeader(labelSize, options) ==
    Line(Chars("^XA"))
    \o Line(Chars("^PW") \o Round(labelSize.width))
    \o Line(Chars("^LL") \o Round(labelSize.height))
    \o Line(Chars("^PR") \o IntToString(options.printSpeed))
    \o Line(Chars("^MD") \o IntToString(options.density))
    \o (IF options.tearOff # 0 THEN Line(Chars("^TO") \o IntToString(options.tearOff)) ELSE <<>>)
ZPLFooter == Line(Chars("^XZ"))

\* The heap after the call and the string returned.
generateZPL(h, ref, labelSize, options) ==
    LET s == SortedCopy(h, ref)
        sortedElements == s.heap[s.sortedElements]
    IN  [heap |-> s.heap,
         code |-> ZPLHeader(labelSize, options)
                  \o Blocks([i \in 1..Len(sortedElements) |-> generateZPLElement(sortedElements[i])], 1)
                  \o ZPLFooter]

-----------------------------------------------------------------------------
(* EPL                                                                     *)

\* a % b of JavaScript for b > 0: the sign follows a.
Remainder(a, b) == IF a < 0 THEN -((-a) % b) ELSE a % b

\* `${Math.floor(rotation / 90) % 4}`
RotationCode(rotation) ==
    IF IsNumber(rotation) THEN IntToString(Remainder(rotation.v \div 900, 4)) ELSE Chars("NaN")

Quoted(s) == <<"\"">> \o s \o <<"\"">>

generateEPLText(element) ==
    LET p == element.properties
        fontSize == Default(Prop(p, "fontSize"), NumberValue(120))
        rotation == Default(Prop(p, "rotation"), NumberValue(0))
        fontsize == IF ~IsNumber(fontSize) THEN 1
                    ELSE IF fontSize.v >= 200 THEN 5
                    ELSE IF fontSize.v >= 160 THEN 4
                    ELSE IF fontSize.v >= 120 THEN 3
                    ELSE IF fontSize.v >= 100 THEN 2
                    ELSE 1
    IN  Line(<<"A">> \o Round(element.x) \o Comma \o Round(element.y) \o Comma \o RotationCode(rotation)
             \o Comma \o IntToString(fontsize) \o Chars(",1,1,N,") \o Quoted(Str(Prop(p, "text"))))

generateEPLLine(element) ==
    LET thickness == Default(Prop(element.properties, "thickness"), NumberValue(10))
        lineHeight == IF IsNumber(thickness)
                      THEN NumberToString(IF thickness.v > 10 THEN thickness.v ELSE 10)
                      ELSE Chars("NaN")
    IN  Line(Chars("LO") \o Round(element.x) \o Comma \o Round(element.y) \o Comma \o Round(element.width)
             \o Comma \o lineHeight)

generateEPLBox(element) ==
    LET borderWidth == Default(Prop(element.properties, "borderWidth"), NumberValue(10))
        x == element.x
        y == element.y
    IN  Line(<<"X">> \o Round(x) \o Comma \o Round(y) \o Comma \o Round(borderWidth)
             \o Comma \o Rounded(<<x, element.width>>, x.v + element.width.v, 10)
             \o Comma \o Rounded(<<y, element.height>>, y.v + element.height.v, 10))

generateEPLBarcode(element) ==
    LET p == element.properties
        type == Default(Prop(p, "type"), StringValue(Chars("CODE128")))
        showText == Default(Prop(p, "showText"), BooleanValue(TRUE))
        rotation == Default(Prop(p, "rotation"), NumberValue(0))
        key == SymbolKey(type)
    IN  IF key = "" THEN <<>>
        ELSE Line(<<"B">> \o Round(element.x) \o Comma \o Round(element.y) \o Comma \o RotationCode(rotation)
                  \o Comma \o Chars(BARCODE_TYPES[key].epl) \o Chars(",2,6,") \o Round(element.height)
                  \o Comma \o <<IF Truthy(showText) THEN "B" ELSE "N">> \o Comma \o Quoted(Str(Prop(p, "data"))))

generateEPLImage(element) ==
    Line(Chars("GW") \o Round(element.x) \o Comma \o Round(element.y) \o Comma
         \o Rounded(<<element.width>>, element.width.v, 80) \o Comma \o Round(element.height)
         \o Chars(",<IMAGE_DATA>"))

\* A dispatch without the default case: an element no case takes gives
\* undefined, which += writes out.
generateEPLElementNoDefault(element) ==
    CASE element.type = "text" -> generateEPLText(element)
      [] element.type = "line" -> generateEPLLine(element)
      [] element.type = "box" -> generateEPLBox(element)
      [] element.type = "barcode" -> generateEPLBarcode(element)
      [] element.type = "image" -> generateEPLImage(element)
      [] OTHER -> Str(UndefinedValue)

generateEPLElement(element) ==
    CASE element.type = "text" -> generateEPLText(element)
      [] element.type = "line" -> generateEPLLine(element)
      [] element.type = "box" -> generateEPLBox(element)
      [] element.type = "barcode" -> generateEPLBarcode(element)
      [] element.type = "image" -> generateEPLImage(element)
      [] OTHER -> <<>>

\* What generateEPL writes before and after the elements.
EPLHeader(labelSize, options) ==
    Line(<<"N">>)
    \o Line(<<"S">> \o IntToString(options.speed))
    \o Line(<<"D">> \o IntToString(options.density))
    \o Line(Chars("ZT"))
    \o Line(<<"q">> \o Round(labelSize.width))
    \o Line(<<"Q">> \o Round(labelSize.height) \o Chars(",26"))
\* A generateEPL that forgets the print command.
EPLFooterOmitted(options) == <<>>
EPLFooter(options) == Line(<<"P">> \o IntToString(options.copies))

generateEPL(h, ref, labelSize, options) ==
    LET s == SortedCopy(h, ref)
        sortedElements == s.heap[s.sortedElements]
    IN  [heap |-> s.heap,
         code |-> EPLHeader(labelSize, options)
                  \o Blocks([i \in 1..Len(sortedElements) |-> generateEPLElement(sortedElements[i])], 1)
                  \o EPLFooter(options)]

-----------------------------------------------------------------------------
(* DPL                                                                     *)

\* The control character \x02 (start of text).
STX == "\\x02"

\* Math.round(v).toString().padStart(4, '0')
Padded4(value) == PadStart(Round(value), 4, "0")

generateDPLElement(element) ==
    CASE element.type = "text" ->
            Line(Chars("1911A0100000000") \o Padded4(element.x) \o Padded4(element.y)
                 \o Str(Prop(element.properties, "text")))
      [] element.type = "barcode" ->
            Line(Chars("1231100000000") \o Padded4(element.x) \o Padded4(element.y)
                 \o Padded4(element.height) \o Str(Prop(element.properties, "data")))
      [] OTHER -> <<>>

\* elements.forEach(...): the array is read in the order it has.
DPLHeader(labelSize) ==
    Line(<<STX, "L">>)
    \o Line(<<"H">> \o Round(labelSize.height))
    \o Line(<<"W">> \o Round(labelSize.width))
    \o Line(Chars("Q1"))
DPLFooter == Line(<<"E">>)

generateDPL(h, ref, labelSize) ==
    LET elems == h[ref]
    IN  [heap |-> h,
         code |-> DPLHeader(labelSize)
                  \o Blocks([i \in 1..Len(elems) |-> generateDPLElement(elems[i])], 1)
                  \o DPLFooter]

-----------------------------------------------------------------------------
(* Barcode checksum                                                        *)

\* A swapped weighting: 3 at the even positions of EAN13, 1 at those of UPC_A.
WeightSwapped(type, i) ==
    IF type = "EAN13" THEN (IF i % 2 = 0 THEN 3 ELSE 1) ELSE (IF i % 2 = 0 THEN 1 ELSE 3)

\* (i % 2 === 0 ? 1 : 3) for EAN13, (i % 2 === 0 ? 3 : 1) for UPC_A
Weight(type, i) ==
    IF type = "EAN13" THEN (IF i % 2 = 0 THEN 1 ELSE 3) ELSE (IF i % 2 = 0 THEN 3 ELSE 1)

\* for (let i = ...; i < n; i++) sum += parseInt(data[i]) * weight; data[i]
\* is the character at the 0-based index i. The sum is NaN once a character
\* is not a digit.
RECURSIVE ChecksumLoop(_, _, _, _, _)
ChecksumLoop(data, type, i, n, sum) ==
    IF i >= n THEN sum
    ELSE LET d == ParseInt(<<data[i + 1]>>)
         IN  IF d.nan \/ sum.k = "NaN" THEN ChecksumLoop(data, type, i + 1, n, NaNValue)
             ELSE ChecksumLoop(data, type, i + 1, n, [k |-> "int", v |-> sum.v + d.n * Weight(type, i)])

\* return (10 - (sum % 10)) % 10
CheckDigit(sum) == IF sum.k = "NaN" THEN NaNValue ELSE [k |-> "int", v |-> (10 - (sum.v % 10)) % 10]

\* The value returned: a whole number ("int"), NaN or null.
calculateBarcodeChecksum(data, type) ==
    CASE type = "EAN13" /\ Len(data) = 12 -> CheckDigit(ChecksumLoop(data, type, 0, 12, [k |-> "int", v |-> 0]))
      [] type = "UPC_A" /\ Len(data) = 11 -> CheckDigit(ChecksumLoop(data, type, 0, 11, [k |-> "int", v |-> 0]))
      [] OTHER -> NullValue

-----------------------------------------------------------------------------
(* Barcode data validation                                                 *)

\* The characters outside \x00-\x7F the payloads use (one UTF-16 unit each).
NonAscii == {"é", "€"}

\* \s of a regular expression: blank, tab, line feed, carriage return, ...
RegexSpace == {" ", "\t", "\n", "\r", "\f"}

\* [A-Z0-9\-\.\$\/\+\%\s]
Code39Class == Range(UpperLetters) \cup Range(Digits) \cup {"-", ".", "$", "/", "+", "%"} \cup RegexSpace

\* Max QR code capacity
QRCapacity == 2953

\* data.length: the number of UTF-16 units
QRLength(data) == Len(data)

validateBarcodeData(data, type) ==
    IF data = <<>> THEN FALSE
    ELSE CASE type = "CODE128" -> \A i \in 1..Len(data) : data[i] \notin NonAscii
           [] type = "CODE39" -> \A i \in 1..Len(data) : data[i] \in Code39Class
           [] type = "EAN13" -> AllDigits(data) /\ Len(data) \in 12..13
           [] type = "UPC_A" -> AllDigits(data) /\ Len(data) \in 11..12
           [] type = "QR" -> QRLength(data) <= QRCapacity
           [] OTHER -> TRUE

-----------------------------------------------------------------------------
(* Inputs of the resolver                                                  *)

\* The longest directive list of a format spec.
MaxDirectives == 2

Directives ==
    {Chars("upper"), Chars("lower"), Chars("title"), Chars("trim"), Chars("truncate:3"), Chars("pad:6"),
     Chars("decimal:2"), Chars("currency"), Chars("percent"), Chars("bogus"),
     Chars("decimal:-1"), Chars("truncate:x")}

RECURSIVE JoinWith(_, _)
JoinWith(list, sep) ==
    IF Len(list) = 1 THEN list[1] ELSE list[1] \o sep \o JoinWith(Tail(list), sep)

DirectiveSpecs == {JoinWith(l, Comma) : l \in UNION {[1..n -> Directives] : n \in 1..MaxDirectives}}

DateSpecs ==
    {Chars("YYYY-MM-DD"), Chars("MMMM"), Chars("MMM D, YYYY"), Chars("MM/DD/YY"), Chars("HH:mm:ss"), Chars("M/D H:m:s")}

BooleanSpecs == {Chars("Yes|No"), Chars("Yes"), Chars(" on | off ")}

OtherSpecs == {Chars(" trim , upper "), Chars("decimal:101"), Chars("decimal:abc,currency"), Chars("pad:x"), Chars("decimal:0")}

FormatSpecs == {Undefined} \cup DirectiveSpecs \cup DateSpecs \cup BooleanSpecs \cup OtherSpecs

Names == {Chars("x"), Chars("amt"), Chars("d"), Chars("ok"), Chars("s"), Chars("ds"), Chars("constructor")}

Placeholder(name, spec) ==
    Chars("{{") \o name \o (IF spec = Undefined THEN <<>> ELSE <<"|">> \o spec) \o Chars("}}")

Texts ==
    {Placeholder(name, spec) : name \in Names, spec \in FormatSpecs}
    \cup {Chars("Hi {{s}}!"), Chars("{{x}} and {{s|upper}}"), Chars("{{ amt | decimal:2 }}"),
          Chars("{{x|upper}}{{amt}}"), Chars("no placeholder"), Chars("{{}} {{a}b}} {s}"), <<>>}

Name(n) == Chars(n)

BindingSets ==
    { <<>>,
      (Name("amt") :> NumberValue(30)) @@ (Name("d") :> DateValue(2024, 1, 5, 0, 0, 0))
          @@ (Name("ok") :> BooleanValue(TRUE)) @@ (Name("s") :> StringValue(Chars("ab Cd")))
          @@ (Name("ds") :> StringValue(Chars("2024-01-05"))) @@ (Name("x") :> NullValue),
      (Name("amt") :> NumberValue(37)) @@ (Name("d") :> DateValue(2024, 11, 23, 14, 7, 9))
          @@ (Name("ok") :> BooleanValue(FALSE)) @@ (Name("s") :> StringValue(Chars(" hello wOrld-x ")))
          @@ (Name("ds") :> StringValue(Chars("2023-12-31"))) @@ (Name("x") :> UndefinedValue) }

-----------------------------------------------------------------------------
(* Inputs of the document operations                                       *)

\* The longest element list of a document.
MaxElements == 3

\* The number of callers that work on the same document.
NumCallers == 2

Num(n) == NumberValue(10 * n)
Lit(s) == StringValue(Chars(s))

Element(id, type, x, y, width, height, zIndex, properties) ==
    [id |-> id, type |-> type, x |-> Num(x), y |-> Num(y), width |-> Num(width), height |-> Num(height),
     rotation |-> Num(0), zIndex |-> zIndex, properties |-> properties]

ElementPool ==
    { Element("A", "text", 10, 20, 100, 20, Num(2),
              ("text" :> Lit("Hi {{name}}")) @@ ("fontSize" :> Num(12)) @@ ("alignment" :> Lit("left"))),
      Element("B", "text", 10, 50, 100, 20, Num(0),
              ("text" :> Lit("Plain")) @@ ("fontSize" :> Num(8)) @@ ("alignment" :> Lit("center"))),
      Element("C", "barcode", 10, 80, 200, 50, Num(2),
              ("data" :> Lit("{{sku|pad:6}}")) @@ ("type" :> Lit("CODE128")) @@ ("showText" :> BooleanValue(TRUE))),
      Element("D", "line", 0, 75, 300, 0, UndefinedValue,
              ("thickness" :> Num(2)) @@ ("color" :> Lit("#000000"))),
      Element("F", "image", 300, 10, 64, 64, Num(1),
              ("src" :> Lit("logo.png")) @@ ("alt" :> Lit("")) @@ ("opacity" :> Num(1))) }

\* The element lists of at most MaxElements elements, each element at most once.
Documents ==
    {d \in UNION {[1..n -> ElementPool] : n \in 0..MaxElements} :
        \A i, j \in 1..Len(d) : i # j => d[i] # d[j]}

DocumentBindings ==
    { <<>>, (Name("name") :> StringValue(Chars("Doe"))) @@ (Name("sku") :> NumberValue(420)) }

\* The longest element list of a document that holds unusual elements.
MaxUnusual == 2

\* Elements a caller can pass that the designer does not make itself: values
\* with a fraction, NaN or undefined geometry, a type or a symbol key nothing
\* knows, a directive with a negative argument.
UnusualPool ==
    { [Element("T", "text", 0, 0, 100, 20, Num(0),
               ("text" :> Lit("Hi {{name}}")) @@ ("fontSize" :> Num(12)))
          EXCEPT !.x = NumberValue(25), !.y = NumberValue(-25)],
      Element("U", "polygon", 10, 20, 30, 40, Num(1), ("text" :> Lit("{{name}}")) @@ ("data" :> Lit("7"))),
      Element("N", "barcode", 10, 80, 200, 50, Num(0),
              ("data" :> Lit("12")) @@ ("type" :> Lit("NOPE"))),
      Element("K", "circle", 10, 10, 41, 40, Num(1), ("borderWidth" :> Num(2))),
      [Element("G", "barcode", 0, 80, 200, 0, Num(0),
               ("data" :> Lit("400638133393")) @@ ("type" :> Lit("EAN13")))
          EXCEPT !.x = NaNValue, !.height = UndefinedValue],
      Element("L", "line", 0, 75, 300, 0, Num(2), ("thickness" :> NumberValue(15))),
      Element("X", "text", 10, 20, 100, 20, Num(1),
              ("text" :> Lit("{{sku|decimal:-1}}")) @@ ("fontSize" :> Num(10))),
      Element("Q", "barcode", 10, 80, 200, 50, Num(0),
              ("data" :> Lit("{{sku|pad:6}}")) @@ ("type" :> Lit("CODE128"))) }

UnusualDocuments ==
    {d \in UNION {[1..n -> UnusualPool] : n \in 0..MaxUnusual} :
        \A i, j \in 1..Len(d) : i # j => d[i] # d[j]}

\* Elements with a rotation, as the designer's Element record has it: a text
\* and a barcode of every symbol of the table, with and without its text.
Rotations == {0, 90, 180, 270}
RotatedPool ==
    { [Element("R", "text", 10, 20, 120, 20, Num(0),
               ("text" :> Lit("Sample Text")) @@ ("fontSize" :> Num(12)) @@ ("alignment" :> Lit("left")))
          EXCEPT !.rotation = Num(r)] : r \in Rotations }
    \cup
    { [Element("S", "barcode", 10, 80, 120, 60, Num(0),
               ("data" :> Lit("123456789")) @@ ("type" :> Lit(key)) @@ ("showText" :> BooleanValue(b)))
          EXCEPT !.rotation = Num(r)] : key \in DOMAIN BARCODE_TYPES, r \in Rotations, b \in BOOLEAN }

Callers == 1..NumCallers

\* The payloads of calculateBarcodeChecksum are made of the first
\* PayloadBlocks of these groups of four digits, three groups each, cut to 11
\* digits, whole (12), or with a digit more (13).
PayloadBlocks == 4
DigitGroups == <<"1234", "5678", "9012", "4006", "0000", "3813", "9999", "0905">>
Groups == {Chars(DigitGroups[i]) : i \in 1..PayloadBlocks}
Payloads ==
    LET twelve == {a \o b \o c : a \in Groups, b \in Groups, c \in Groups}
    IN  twelve \cup {SubSeq(d, 1, 11) : d \in twelve} \cup {Append(d, "7") : d \in twelve}
                  \cup {Chars("12345678901x"), <<>>}
Symbols == {"EAN13", "UPC_A", "CODE128", "QR"}

\* The payloads and symbol keys validateBarcodeData is called with; Long(c, n)
\* is the character c written n times.
Long(c, n) == [i \in 1..n |-> c]
ValidatedPayloads ==
    {<<>>, Chars("ABC-123"), Chars("HELLO WORLD"), Chars("A.$/+%Z"), Chars("abc"), Chars("A*B"), <<"A", "\t", "B">>,
     <<"A", "\n">>, Chars("12345678901"), Chars("123456789012"), Chars("1234567890123"),
     Chars("12345678901234"), Chars("12345678901x"), Chars(" 123456789012"), <<"é">>, Chars("0"),
     Long("a", QRCapacity), Long("a", QRCapacity + 1), Long("é", QRCapacity), Long("é", 1477), Long("é", 1476)}
ValidatedSymbols == {"CODE128", "CODE39", "EAN13", "UPC_A", "QR", "PDF417"}

\* DEFAULT_LABEL_SIZE
LabelSize == [width |-> Num(400), height |-> Num(300)]

\* The options of generateZPL and generateEPL after their defaults.
DefaultZPLOptions == [dpi |-> 203, density |-> 8, printSpeed |-> 4, tearOff |-> 0]
DefaultEPLOptions == [speed |-> 4, density |-> 1, copies |-> 1]
ZPLOptions ==
    {DefaultZPLOptions, [DefaultZPLOptions EXCEPT !.tearOff = 2], [DefaultZPLOptions EXCEPT !.dpi = 300]}
EPLOptions == {DefaultEPLOptions, [DefaultEPLOptions EXCEPT !.copies = 3]}

\* The formats a caller asks generateCode for: the two it names, and one it
\* does not know.
RequestedFormats == {"ZPL", "EPL", "PDF"}

NoCall == [op |-> "none", caller |-> 0, ref |-> 0, threw |-> FALSE]

-----------------------------------------------------------------------------
(* The designer: the reducer of LabelDesignerContext, the auto-save effect *)
(* of the provider and the image uploader of the designer component.       *)
(* The fields of the state that no element operation reads (view settings, *)
(* templates, variables) are left out, and so is the timestamp of a        *)
(* history entry.                                                          *)

\* null is the empty list, a value <<v>>.
Null == <<>>
Some(v) == <<v>>

\* initialState
InitialState ==
    [elements |-> <<>>, selectedElement |-> Null, history |-> <<>>, historyIndex |-> -1, clipboard |-> Null]

ArrayValue(a) == [k |-> "array", v |-> a]

getDefaultSize(elementType) ==
    CASE elementType = "text" -> [width |-> 120, height |-> 20]
      [] elementType = "line" -> [width |-> 100, height |-> 2]
      [] elementType = "box" -> [width |-> 100, height |-> 80]
      [] elementType = "circle" -> [width |-> 60, height |-> 60]
      [] elementType = "image" -> [width |-> 100, height |-> 100]
      [] elementType = "barcode" -> [width |-> 120, height |-> 60]
      [] OTHER -> [width |-> 100, height |-> 80]

getDefaultProperties(elementType) ==
    CASE elementType = "text" ->
            ("text" :> Lit("Sample Text")) @@ ("fontSize" :> Num(12)) @@ ("fontWeight" :> Lit("normal"))
            @@ ("color" :> Lit("#000000")) @@ ("alignment" :> Lit("left")) @@ ("fontFamily" :> Lit("Arial"))
            @@ ("variables" :> ArrayValue(<<>>))
      [] elementType = "box" ->
            ("borderWidth" :> Num(2)) @@ ("borderColor" :> Lit("#000000")) @@ ("fillColor" :> Lit("transparent"))
            @@ ("cornerRadius" :> Num(0))
      [] elementType = "image" ->
            ("src" :> Lit("")) @@ ("alt" :> Lit("Image")) @@ ("fit" :> Lit("contain")) @@ ("opacity" :> Num(1))
      [] elementType = "barcode" ->
            ("data" :> Lit("123456789")) @@ ("type" :> Lit("CODE128")) @@ ("showText" :> BooleanValue(TRUE))
            @@ ("textPosition" :> Lit("bottom")) @@ ("variables" :> ArrayValue(<<>>))
      [] OTHER -> <<>>

\* a || b for an argument that is a number or left out (0)
OrDefault(a, b) == IF a = 0 THEN b ELSE a

\* { ...el, ...updates }
Spread(el, updates) == [f \in DOMAIN el |-> IF f \in DOMAIN updates THEN updates[f] ELSE el[f]]

\* state.elements.find(el => el.id === elementId): Null when there is none
Find(elements, elementId) ==
    IF \E i \in 1..Len(elements) : elements[i].id = elementId
    THEN Some(elements[CHOOSE i \in 1..Len(elements) :
                  elements[i].id = elementId /\ \A j \in 1..(i - 1) : elements[j].id # elementId])
    ELSE Null

\* The copy DUPLICATE_ELEMENT and PASTE_ELEMENT make of an element at time t.
Offset(s, element, t) ==
    [element EXCEPT !.id = t, !.x = NumberValue(element.x.v + 200), !.y = NumberValue(element.y.v + 200),
                    !.zIndex = Num(Len(s.elements))]

\* zIndex: state.elements.length
NextZIndex(s) == Num(Len(s.elements))

\* history.slice(-50)
HistoryLimit == 50
\* history.slice(0, n)
First(history, n) == IF Len(history) <= n THEN history ELSE SubSeq(history, 1, n)
Last(history, n) == IF Len(history) <= n THEN history ELSE SubSeq(history, Len(history) - n + 1, Len(history))

\* labelDesignerReducer(state, action), t being Date.now()
labelDesignerReducer(s, action, t) ==
    CASE action.type = "ADD_ELEMENT" ->
            LET size == getDefaultSize(action.elementType)
                newElement == Element(t, action.elementType, OrDefault(action.x, 50), OrDefault(action.y, 50),
                                      OrDefault(action.width, size.width), OrDefault(action.height, size.height),
                                      NextZIndex(s), getDefaultProperties(action.elementType))
            IN  [s EXCEPT !.elements = Append(s.elements, newElement), !.selectedElement = Some(newElement.id)]
      [] action.type = "UPDATE_ELEMENT" ->
            [s EXCEPT !.elements = [i \in 1..Len(s.elements) |->
                                       IF s.elements[i].id = action.elementId
                                       THEN Spread(s.elements[i], action.updates)
                                       ELSE s.elements[i]]]
      [] action.type = "DELETE_ELEMENT" ->
            [s EXCEPT !.elements = SelectSeq(s.elements, LAMBDA el : el.id # action.elementId),
                      !.selectedElement = IF s.selectedElement = Some(action.elementId) THEN Null
                                          ELSE s.selectedElement]
      [] action.type = "SELECT_ELEMENT" ->
            [s EXCEPT !.selectedElement = Some(action.elementId)]
      [] action.type = "DUPLICATE_ELEMENT" ->
            LET element == Find(s.elements, action.elementId)
            IN  IF element = Null THEN s
                ELSE [s EXCEPT !.elements = Append(s.elements, Offset(s, element[1], t)),
                               !.selectedElement = Some(t)]
      [] action.type = "COPY_ELEMENT" ->
            [s EXCEPT !.clipboard = Find(s.elements, action.elementId)]
      [] action.type = "PASTE_ELEMENT" ->
            IF s.clipboard = Null THEN s
            ELSE [s EXCEPT !.elements = Append(s.elements, Offset(s, s.clipboard[1], t)),
                           !.selectedElement = Some(t)]
      [] action.type = "PUSH_HISTORY" ->
            LET newHistory == Append(First(s.history, s.historyIndex + 1), [elements |-> s.elements])
            IN  [s EXCEPT !.history = Last(newHistory, HistoryLimit), !.historyIndex = Len(newHistory) - 1]
      [] action.type = "UNDO" ->
            IF s.historyIndex > 0
            THEN [s EXCEPT !.elements = s.history[s.historyIndex].elements,
                           !.historyIndex = s.historyIndex - 1, !.selectedElement = Null]
            ELSE s
      [] action.type = "REDO" ->
            IF s.historyIndex < Len(s.history) - 1
            THEN [s EXCEPT !.elements = s.history[s.historyIndex + 2].elements,
                           !.historyIndex = s.historyIndex + 1, !.selectedElement = Null]
            ELSE s
      [] action.type = "LOAD_TEMPLATE" ->
            [s EXCEPT !.elements = action.template.elements, !.selectedElement = Null]
      [] action.type = "RESET_STATE" -> InitialState
      [] OTHER -> s

\* The action gives the state an elements array that is not the one it had:
\* the dependency of the auto-save effect has changed.
NewElementsArray(s, action) ==
    CASE action.type \in {"ADD_ELEMENT", "UPDATE_ELEMENT", "DELETE_ELEMENT", "LOAD_TEMPLATE"} -> TRUE
      [] action.type = "DUPLICATE_ELEMENT" -> Find(s.elements, action.elementId) # Null
      [] action.type = "PASTE_ELEMENT" -> s.clipboard # Null
      [] action.type = "UNDO" -> s.historyIndex > 0
      [] action.type = "REDO" -> s.historyIndex < Len(s.history) - 1
      [] action.type = "RESET_STATE" -> s.elements # <<>>
      [] OTHER -> FALSE

\* useEffect(..., [state.elements]): a change of the elements array clears
\* the pending timeout and, when the array is not empty, sets a new one.
AutoSave(s, action, pending) ==
    IF NewElementsArray(s, action) THEN Len(labelDesignerReducer(s, action, 0).elements) > 0 ELSE pending

-----------------------------------------------------------------------------
(* Inputs of the designer                                                  *)

\* The number of actions of the user a session of the model goes on for.
MaxActions == 3

AddedTypes == {"text", "barcode"}

Add(elementType, x, y, width, height) ==
    [type |-> "ADD_ELEMENT", elementType |-> elementType, x |-> x, y |-> y, width |-> width, height |-> height]
Push == [type |-> "PUSH_HISTORY"]

\* The element list of a label saved earlier, which the host passes as
\* initialData: a text, a barcode and a box, added in this order.
SavedElements ==
    LET s1 == labelDesignerReducer(InitialState, Add("text", 0, 0, 0, 0), 1)
        s2 == labelDesignerReducer(s1, Add("barcode", 50, 100, 0, 0), 2)
    IN  labelDesignerReducer(s2, Add("box", 200, 50, 0, 0), 3).elements

InitialData == {<<>>, SavedElements}

\* useReducer(labelDesignerReducer, { ...initialState, ...initialData })
Constructed(elements) == [InitialState EXCEPT !.elements = elements]

\* updateElement(id, { x: newX, y: newY }) of a drag by ten to the right
Move(element) ==
    [type |-> "UPDATE_ELEMENT", elementId |-> element.id,
     updates |-> ("x" :> NumberValue(element.x.v + 100)) @@ ("y" :> element.y)]

\* The state after n more rounds of the user dragging the first element and
\* the auto-save timeout firing.
Round1(s) == labelDesignerReducer(labelDesignerReducer(s, Move(s.elements[1]), 0), Push, 0)
RECURSIVE Worked(_, _)
Worked(s, n) ==
    IF n = 0 THEN s
    ELSE CHOOSE r \in {Worked(after, n - 1) : after \in {Round1(before) : before \in {s}}} : TRUE

\* A long session on the saved label: the timeout fired after the mount and
\* after each of HistoryLimit - 1 drags, so the history is full.
LongSession == Worked(labelDesignerReducer(Constructed(SavedElements), Push, 0), HistoryLimit - 1)

\* A template of one box, made in another session.
Template == [elements |-> <<Element(0, "box", 10, 10, 380, 280, Num(0), getDefaultProperties("box"))>>]

ImageData == Lit("data:image/png;base64,iVBORw0KGgo=")

NoSession ==
    [actions |-> 0, last |-> "none", before |-> <<>>, undone |-> Null, redone |-> Null, created |-> Null,
     plain |-> TRUE, threw |-> FALSE]

\* The designer is not mounted.
NoEditor ==
    /\ state = InitialState
    /\ timer = FALSE
    /\ now = 0
    /\ session = NoSession

-----------------------------------------------------------------------------
(* The resolver as a state machine: one call on a text and a bindings      *)
(* object.                                                                 *)

ResolverInit ==
    /\ text \in Texts
    /\ symbol = ""
    /\ variables \in BindingSets
    /\ result = Undefined
    /\ pc = "ready"
    /\ heap = <<>>
    /\ processed = 0
    /\ output = <<>>
    /\ lastCall = NoCall
    /\ NoEditor

Resolve ==
    /\ pc = "ready"
    /\ result' = replaceVariablePlaceholders(text, variables)
    /\ pc' = "done"
    /\ UNCHANGED <<state, timer, now, session, symbol, text, variables, heap, processed, output, lastCall>>

ResolverNext == Resolve

ResolverSpec == ResolverInit /\ [][ResolverNext]_vars

-----------------------------------------------------------------------------
(* The document operations as a state machine: callers that hold the same  *)
(* element array and bindings call processVariables, the three generators  *)
(* and generateCode. The calls are synchronous, so they happen one after   *)
(* the other, in any order and by any caller; a caller takes the value its *)
(* call returned before the next call is made.                             *)

Init ==
    /\ text = <<>>
    /\ symbol = ""
    /\ variables \in DocumentBindings
    /\ result = Undefined
    /\ pc = "idle"
    /\ \E d \in Documents : heap = (ElementsRef :> d)
    /\ processed = 0
    /\ output = <<>>
    /\ lastCall = NoCall
    /\ NoEditor

\* The arrays a caller can pass: the document, or the last processVariables result.
Arguments == {ElementsRef} \cup ({processed} \ {0})

\* The heap once a call has returned: arrays nothing refers to any more are gone.
Kept(h, refs) == [r \in refs |-> h[r]]

Called(op, ref, threw) ==
    /\ pc' = "returned"
    /\ \E c \in Callers : lastCall' = [op |-> op, caller |-> c, ref |-> ref, threw |-> threw]

ProcessVariables ==
    LET r == processVariables(heap[ElementsRef], variables)
        new == NewRef(Kept(heap, {ElementsRef}))
    IN  /\ pc = "idle"
        /\ IF r.threw
           THEN UNCHANGED <<heap, processed>>
           ELSE /\ heap' = [x \in {ElementsRef, new} |-> IF x = new THEN r.elements ELSE heap[x]]
                /\ processed' = new
        /\ Called("processVariables", ElementsRef, r.threw)
        /\ UNCHANGED <<state, timer, now, session, symbol, text, variables, result, output>>

GenerateZPL(ref, options) ==
    LET r == generateZPL(heap, ref, LabelSize, options)
    IN  /\ pc = "idle"
        /\ heap' = Kept(r.heap, DOMAIN heap)
        /\ output' = r.code
        /\ Called("generateZPL", ref, FALSE)
        /\ UNCHANGED <<state, timer, now, session, symbol, text, variables, result, processed>>

GenerateEPL(ref, options) ==
    LET r == generateEPL(heap, ref, LabelSize, options)
    IN  /\ pc = "idle"
        /\ heap' = Kept(r.heap, DOMAIN heap)
        /\ output' = r.code
        /\ Called("generateEPL", ref, FALSE)
        /\ UNCHANGED <<state, timer, now, session, symbol, text, variables, result, processed>>

GenerateDPL(ref) ==
    LET r == generateDPL(heap, ref, LabelSize)
    IN  /\ pc = "idle"
        /\ heap' = Kept(r.heap, DOMAIN heap)
        /\ output' = r.code
        /\ Called("generateDPL", ref, FALSE)
        /\ UNCHANGED <<state, timer, now, session, symbol, text, variables, result, processed>>

\* actions.generateCode(format): processVariables, then generateZPL for 'ZPL'
\* and generateEPL for anything else, with the default options.
generateCode(h, bindings, format) ==
    LET r == processVariables(h[ElementsRef], bindings)
        processedElements == NewRef(h)
        h1 == [x \in DOMAIN h \cup {processedElements} |-> IF x = processedElements THEN r.elements ELSE h[x]]
    IN  IF r.threw THEN [heap |-> h, code |-> RangeError]
        ELSE IF format = "ZPL" THEN generateZPL(h1, processedElements, LabelSize, DefaultZPLOptions)
        ELSE generateEPL(h1, processedElements, LabelSize, DefaultEPLOptions)

GenerateCode(format) ==
    LET r == generateCode(heap, variables, format)
    IN  /\ pc = "idle"
        /\ heap' = Kept(r.heap, DOMAIN heap)
        /\ output' = IF r.code = RangeError THEN output ELSE r.code
        /\ Called("generateCode:" \o format, ElementsRef, r.code = RangeError)
        /\ UNCHANGED <<state, timer, now, session, symbol, text, variables, result, processed>>

\* The caller takes the returned string (exportCode hands it to onExport).
Return ==
    /\ pc = "returned"
    /\ pc' = "idle"
    /\ output' = <<>>
    /\ lastCall' = NoCall
    /\ UNCHANGED <<state, timer, now, session, symbol, text, variables, result, heap, processed>>

Next ==
    \/ ProcessVariables
    \/ \E ref \in Arguments, options \in ZPLOptions : GenerateZPL(ref, options)
    \/ \E ref \in Arguments, options \in EPLOptions : GenerateEPL(ref, options)
    \/ \E ref \in Arguments : GenerateDPL(ref)
    \/ \E format \in RequestedFormats : GenerateCode(format)
    \/ Return

Spec == Init /\ [][Next]_vars

\* The same calls on a document of unusual elements.
UnusualInit ==
    /\ text = <<>>
    /\ symbol = ""
    /\ variables \in DocumentBindings \ {<<>>}
    /\ result = Undefined
    /\ pc = "idle"
    /\ \E d \in UnusualDocuments : heap = (ElementsRef :> d)
    /\ processed = 0
    /\ output = <<>>
    /\ lastCall = NoCall
    /\ NoEditor

UnusualSpec == UnusualInit /\ [][Next]_vars

\* The same calls on a document of one rotated element.
RotatedInit ==
    /\ text = <<>>
    /\ symbol = ""
    /\ variables \in DocumentBindings \ {<<>>}
    /\ result = Undefined
    /\ pc = "idle"
    /\ \E e \in RotatedPool : heap = (ElementsRef :> <<e>>)
    /\ processed = 0
    /\ output = <<>>
    /\ lastCall = NoCall
    /\ NoEditor

RotatedSpec == RotatedInit /\ [][Next]_vars

-----------------------------------------------------------------------------
(* calculateBarcodeChecksum as a state machine: one call on a payload and  *)
(* a symbol key.                                                           *)

ChecksumInit ==
    /\ text \in Payloads
    /\ symbol \in Symbols
    /\ variables = <<>>
    /\ result = Undefined
    /\ pc = "ready"
    /\ heap = <<>>
    /\ processed = 0
    /\ output = <<>>
    /\ lastCall = NoCall
    /\ NoEditor

Checksum ==
    /\ pc = "ready"
    /\ result' = calculateBarcodeChecksum(text, symbol)
    /\ pc' = "done"
    /\ UNCHANGED <<state, timer, now, session, symbol, text, variables, heap, processed, output, lastCall>>

ChecksumNext == Checksum

ChecksumSpec == ChecksumInit /\ [][ChecksumNext]_vars

-----------------------------------------------------------------------------
(* validateBarcodeData as a state machine: one call on a payload and a     *)
(* symbol key.                                                             *)

ValidateInit ==
    /\ text \in ValidatedPayloads
    /\ symbol \in ValidatedSymbols
    /\ variables = <<>>
    /\ result = Undefined
    /\ pc = "ready"
    /\ heap = <<>>
    /\ processed = 0
    /\ output = <<>>
    /\ lastCall = NoCall
    /\ NoEditor

Validate ==
    /\ pc = "ready"
    /\ result' = validateBarcodeData(text, symbol)
    /\ pc' = "done"
    /\ UNCHANGED <<state, timer, now, session, symbol, text, variables, heap, processed, output, lastCall>>

ValidateNext == Validate

ValidateSpec == ValidateInit /\ [][ValidateNext]_vars

-----------------------------------------------------------------------------
(* The designer as a state machine: the user's actions are dispatched one  *)
(* at a time, each at a later Date.now(), and rendered before the next;    *)
(* the auto-save timeout fires between them whenever it is pending.        *)

EditorInit ==
    /\ text = <<>>
    /\ symbol = ""
    /\ variables = <<>>
    /\ result = Undefined
    /\ pc = "idle"
    /\ heap = <<>>
    /\ processed = 0
    /\ output = <<>>
    /\ lastCall = NoCall
    /\ \/ \E elements \in InitialData :
             /\ state = Constructed(elements)
             /\ timer = (Len(elements) > 0)
             /\ session = NoSession
       \/ /\ state = LongSession
          /\ timer = FALSE
          /\ session = [NoSession EXCEPT !.plain = FALSE]
    /\ now = Len(SavedElements) + 1

Ids == {state.elements[i].id : i \in 1..Len(state.elements)}

Edits == {"ADD_ELEMENT", "UPDATE_ELEMENT", "DELETE_ELEMENT", "DUPLICATE_ELEMENT", "PASTE_ELEMENT",
          "LOAD_TEMPLATE", "RESET_STATE"}
Creations == {"ADD_ELEMENT", "DUPLICATE_ELEMENT", "PASTE_ELEMENT"}

\* What the session remembers once the action has been dispatched.
Remembered(action, s2) ==
    [actions |-> session.actions + 1,
     last |-> action.type,
     before |-> state.elements,
     undone |-> IF action.type = "UNDO" /\ s2.elements # state.elements THEN Some(state.elements)
                ELSE IF action.type \in Edits \cup {"UNDO", "REDO"} THEN Null
                ELSE session.undone,
     redone |-> IF action.type = "REDO" THEN session.undone ELSE Null,
     created |-> IF action.type \in Creations /\ Len(s2.elements) > Len(state.elements) THEN Some(now)
                 ELSE IF action.type \in {"DELETE_ELEMENT", "COPY_ELEMENT", "SELECT_ELEMENT"} \cup Creations
                      THEN session.created
                 ELSE Null,
     plain |-> session.plain /\ action.type \in {"DELETE_ELEMENT", "COPY_ELEMENT", "SELECT_ELEMENT"} \cup Creations,
     threw |-> FALSE]

\* dispatch(action) by a handler of the user interface, and the render after it.
Dispatch(action) ==
    LET s2 == labelDesignerReducer(state, action, now)
    IN  /\ session.actions < MaxActions
        /\ state' = s2
        /\ timer' = AutoSave(state, action, timer)
        /\ now' = now + 1
        /\ session' = Remembered(action, s2)
        /\ UNCHANGED <<symbol, text, variables, result, pc, heap, processed, output, lastCall>>

AddElement == \E elementType \in AddedTypes : Dispatch(Add(elementType, 0, 0, 0, 0))
UpdateElement == \E i \in 1..Len(state.elements) : Dispatch(Move(state.elements[i]))
DeleteElement == \E id \in Ids : Dispatch([type |-> "DELETE_ELEMENT", elementId |-> id])
SelectElement ==
    \E id \in Ids : state.selectedElement # Some(id) /\ Dispatch([type |-> "SELECT_ELEMENT", elementId |-> id])
DuplicateElement == \E id \in Ids : Dispatch([type |-> "DUPLICATE_ELEMENT", elementId |-> id])
CopyElement == \E id \in Ids : Dispatch([type |-> "COPY_ELEMENT", elementId |-> id])
PasteElement == state.clipboard # Null /\ Dispatch([type |-> "PASTE_ELEMENT"])
Undo == Dispatch([type |-> "UNDO"])
Redo == Dispatch([type |-> "REDO"])
LoadTemplate == Dispatch([type |-> "LOAD_TEMPLATE", template |-> Template])
ResetState == Dispatch([type |-> "RESET_STATE"])

\* setTimeout(() => dispatch({ type: PUSH_HISTORY }), 1000) fires.
TimerFires ==
    /\ timer
    /\ state' = labelDesignerReducer(state, Push, now)
    /\ timer' = FALSE
    /\ UNCHANGED <<now, session, symbol, text, variables, result, pc, heap, processed, output, lastCall>>

\* onImageSelect(imageData): actions.addElement(IMAGE, 50, 50, 100, 100), then
\* actions.updateElement on state.elements[state.elements.length - 1] of the
\* state the handler was rendered with; reading .id of undefined throws, and
\* the update is then not dispatched.
onImageSelect(s, imageData, t) ==
    LET added == labelDesignerReducer(s, Add("image", 50, 50, 100, 100), t)
        newElement == s.elements[Len(s.elements)]
        update == [type |-> "UPDATE_ELEMENT", elementId |-> newElement.id,
                   updates |-> ("properties" :> (("src" :> imageData) @@ newElement.properties))]
    IN  IF s.elements = <<>> THEN [state |-> added, threw |-> TRUE]
        ELSE [state |-> labelDesignerReducer(added, update, t), threw |-> FALSE]

ImageSelect ==
    LET r == onImageSelect(state, ImageData, now)
    IN  /\ session.actions < MaxActions
        /\ state' = r.state
        /\ timer' = TRUE
        /\ now' = now + 1
        /\ session' = [Remembered(Add("image", 50, 50, 100, 100), r.state) EXCEPT !.last = "imageSelect",
                                                                              !.threw = r.threw]
        /\ UNCHANGED <<symbol, text, variables, result, pc, heap, processed, output, lastCall>>

EditorNext ==
    \/ AddElement
    \/ UpdateElement
    \/ DeleteElement
    \/ SelectElement
    \/ DuplicateElement
    \/ CopyElement
    \/ PasteElement
    \/ Undo
    \/ Redo
    \/ LoadTemplate
    \/ ResetState
    \/ ImageSelect
    \/ TimerFires

EditorSpec == EditorInit /\ [][EditorNext]_vars

-----------------------------------------------------------------------------
(* Properties of the resolver (checked under ResolverSpec)                 *)

\* The pieces of the text of the state, and what was bound to a piece's name.
ThePieces == Pieces(text)
IsPlaceholder(i) == ThePieces[i].isMatch
PieceName(i) == VariableName(ThePieces[i].placeholder)
PieceFormat(i) == Format(ThePieces[i].placeholder)
\* The value the bindings object itself gives the name: undefined when it has
\* no such property.
Bound(i) == IF PieceName(i) \in DOMAIN variables THEN variables[PieceName(i)] ELSE UndefinedValue
HasBinding(i) == Bound(i).k \notin {"undefined", "null"}

\* The result a call must have returned when the placeholders of the set
\* `scope` are replaced by expected[i] and every other piece as the code
\* replaces it.
ResultIs(scope, expected) ==
    result = Concat([i \in 1..Len(ThePieces) |->
                        IF i \in scope THEN expected[i] ELSE Replacements(ThePieces, variables)[i]])

Placeholders == {i \in 1..Len(ThePieces) : IsPlaceholder(i)}

\* C1: a placeholder whose name has no binding (absent, undefined or null) is
\* left in the output exactly as written, and the bound placeholders of the
\* same text are still replaced.
C1_UnboundLeftVerbatim ==
    pc = "done" =>
        ResultIs({i \in Placeholders : ~HasBinding(i)}, [i \in 1..Len(ThePieces) |-> ThePieces[i].match])

\* C2: a boolean referenced as {{name|truePhrase|falsePhrase}} gives truePhrase
\* when it is true and falsePhrase when it is false; without a format spec it
\* gives `true` or `false`.
PhraseParts(i) == LET parts == Split(ThePieces[i].placeholder, "|") IN [j \in 1..Len(parts) |-> Trim(parts[j])]
C2_BooleanPhrases ==
    pc = "done" =>
        ResultIs({i \in Placeholders : Bound(i).k = "boolean" /\ Len(PhraseParts(i)) \in {1, 3}},
                 [i \in 1..Len(ThePieces) |->
                     IF Len(PhraseParts(i)) = 3
                     THEN (IF Bound(i).v THEN PhraseParts(i)[2] ELSE PhraseParts(i)[3])
                     ELSE (IF Bound(i).v THEN Chars("true") ELSE Chars("false"))])

\* The date an instance or a date string stands for.
DateOf(value) == IF value.k = "date" THEN value.v ELSE DateParse(value.v).date

\* The tokens of a date format, the longest first, and the field each stands for.
DateTokens ==
    <<Chars("YYYY"), Chars("MMMM"), Chars("MMM"), Chars("YY"), Chars("MM"), Chars("DD"), Chars("HH"),
      Chars("mm"), Chars("ss"), Chars("M"), Chars("D"), Chars("H"), Chars("m"), Chars("s")>>
TwoDigits(n) == <<Digits[((n \div 10) % 10) + 1], Digits[(n % 10) + 1]>>
TokenField(token, date) ==
    CASE token = Chars("YYYY") -> NatToString(date.year)
      [] token = Chars("YY") -> TwoDigits(date.year)
      [] token = Chars("MMMM") -> MonthNames[date.month]
      [] token = Chars("MMM") -> SubSeq(MonthNames[date.month], 1, 3)
      [] token = Chars("MM") -> TwoDigits(date.month)
      [] token = Chars("M") -> NatToString(date.month)
      [] token = Chars("DD") -> TwoDigits(date.date)
      [] token = Chars("D") -> NatToString(date.date)
      [] token = Chars("HH") -> TwoDigits(date.hours)
      [] token = Chars("H") -> NatToString(date.hours)
      [] token = Chars("mm") -> TwoDigits(date.minutes)
      [] token = Chars("m") -> NatToString(date.minutes)
      [] token = Chars("ss") -> TwoDigits(date.seconds)
      [] token = Chars("s") -> NatToString(date.seconds)

\* One pass over the format: at each position the longest token that starts
\* there is replaced by its field, and the replacement is not scanned again.
RECURSIVE TokensReplacedOnce(_, _)
TokensReplacedOnce(format, date) ==
    IF format = <<>> THEN <<>>
    ELSE LET hits == {k \in 1..Len(DateTokens) : StartsWith(format, DateTokens[k])} IN
         IF hits = {} THEN <<Head(format)>> \o TokensReplacedOnce(Tail(format), date)
         ELSE LET token == DateTokens[CHOOSE k \in hits : \A l \in hits : k <= l] IN
              TokenField(token, date) \o TokensReplacedOnce(SubSeq(format, Len(token) + 1, Len(format)), date)

DateLike(i) == Bound(i).k = "date" \/ (Bound(i).k = "string" /\ ~DateParse(Bound(i).v).nan)

\* C3: when a date is formatted, every token of the format spec is replaced by
\* its field, the longest token first and each occurrence once.
C3_DateTokensLongestFirst ==
    pc = "done" =>
        ResultIs({i \in Placeholders : DateLike(i) /\ DateOf(Bound(i)).valid /\ ~Falsy(PieceFormat(i))},
                 [i \in 1..Len(ThePieces) |-> TokensReplacedOnce(PieceFormat(i), DateOf(Bound(i)))])

\* A directive whose argument is no number of the directive's range.
ArgumentOf(directive) == IF Len(Split(directive, ":")) >= 2 THEN Split(directive, ":")[2] ELSE <<>>
WellFormedArgument(directive, max) ==
    LET a == ArgumentOf(directive) IN a # <<>> /\ AllDigits(a) /\ DigitsValue(a) <= max
Malformed(directive) ==
    \/ StartsWith(directive, Chars("decimal:")) /\ ~WellFormedArgument(directive, 100)
    \/ StartsWith(directive, Chars("pad:")) /\ ~WellFormedArgument(directive, 1000)
    \/ StartsWith(directive, Chars("truncate:")) /\ ~WellFormedArgument(directive, 1000)

\* The directives of a list that are not malformed, in their order.
RECURSIVE WithoutMalformed(_)
WithoutMalformed(list) ==
    IF list = <<>> THEN <<>>
    ELSE (IF Malformed(Head(list)) THEN <<>> ELSE <<Head(list)>>) \o WithoutMalformed(Tail(list))

PieceDirectives(i) == IF Falsy(PieceFormat(i)) THEN <<>> ELSE Formats(PieceFormat(i))
PlainString(i) == HasBinding(i) /\ Bound(i).k = "string" /\ DateParse(Bound(i).v).nan

\* C4: the resolver never throws, and a directive with a malformed argument is
\* ignored: a number formatted with just that directive is its plain string
\* form, a string gets the other directives of the list only.
C4_NeverThrowsMalformedIgnored ==
    pc = "done" =>
        /\ result # RangeError
        /\ ResultIs({i \in Placeholders :
                        \/ Bound(i).k = "number" /\ Len(PieceDirectives(i)) = 1 /\ Malformed(PieceDirectives(i)[1])
                        \/ PlainString(i) /\ \E j \in 1..Len(PieceDirectives(i)) : Malformed(PieceDirectives(i)[j])},
                    [i \in 1..Len(ThePieces) |->
                        IF Bound(i).k = "number" THEN NumberToString(Bound(i).v)
                        ELSE StringLoop(Bound(i).v, WithoutMalformed(PieceDirectives(i)), 1)])

\* The directives formatNumberValue knows.
NumberDirective(directive) ==
    \/ StartsWith(directive, Chars("decimal:")) \/ directive = Chars("currency")
    \/ directive = Chars("percent") \/ StartsWith(directive, Chars("pad:"))

\* The number alone with the first directive of the list that is a number
\* directive; its plain string form when the list has none.
FirstRecognisedOnly(t, directives) ==
    LET known == {j \in 1..Len(directives) : NumberDirective(directives[j])} IN
    IF known = {} THEN NumberToString(t)
    ELSE formatNumberValue(NumberValue(t), directives[CHOOSE j \in known : \A l \in known : j <= l])

\* C5: of the number directives of a list exactly one is applied, the first
\* recognised one; unrecognised entries before it are skipped, everything after
\* it is ignored, and without a recognised directive the plain number string is
\* returned; {{amt|decimal:2}} with amt = 3 gives 3.00.
C5_FirstNumberDirectiveWins ==
    pc = "done" =>
        /\ ResultIs({i \in Placeholders : Bound(i).k = "number"},
                    [i \in 1..Len(ThePieces) |-> FirstRecognisedOnly(Bound(i).v, PieceDirectives(i))])
        /\ (text = Chars("{{amt|decimal:2}}") /\ Bound(1) = NumberValue(30)) => result = Chars("3.00")

C5_Witness ==
    /\ pc = "done"
    /\ text \in {Chars("{{amt|decimal:2,currency}}"), Chars("{{amt|bogus,decimal:2}}")}
    /\ Bound(1) = NumberValue(37)
    /\ result = Chars("3.70")

\* What one string directive makes of a string.
DirectiveApplied(directive, str) ==
    LET n == DigitsValue(ArgumentOf(directive)) IN
    CASE directive = Chars("upper") -> [j \in 1..Len(str) |-> UpperChar(str[j])]
      [] directive = Chars("lower") -> [j \in 1..Len(str) |-> LowerChar(str[j])]
      [] directive = Chars("title") -> TitleCase(str)
      [] directive = Chars("trim") -> Trim(str)
      [] StartsWith(directive, Chars("truncate:")) ->
            IF Len(str) > n THEN SubSeq(str, 1, n) \o Chars("...") ELSE str
      [] StartsWith(directive, Chars("pad:")) ->
            IF Len(str) < n THEN str \o [j \in 1..(n - Len(str)) |-> " "] ELSE str
      [] OTHER -> str

RECURSIVE Chained(_, _)
Chained(str, directives) ==
    IF directives = <<>> THEN str ELSE Chained(DirectiveApplied(Head(directives), str), Tail(directives))

\* C6: a string with a format spec gets every directive of the list, in the
\* listed order, each applied to the result of the one before; an unrecognised
\* directive changes nothing. (Strings the code takes for dates are C7's, and
\* directives with a malformed argument are C4's.)
C6_StringDirectivesChain ==
    pc = "done" =>
        ResultIs({i \in Placeholders :
                    /\ PlainString(i) /\ ~Falsy(PieceFormat(i))
                    /\ \A j \in 1..Len(PieceDirectives(i)) : ~Malformed(PieceDirectives(i)[j])},
                 [i \in 1..Len(ThePieces) |-> Chained(Bound(i).v, PieceDirectives(i))])

C6_Witness ==
    /\ pc = "done"
    /\ text = Chars("{{s|truncate:3,upper}}")
    /\ Bound(1) = StringValue(Chars(" hello wOrld-x "))
    /\ result = Chars(" HE...")

\* The formatter the kind of a value selects, by first match: date, number,
\* boolean, other.
KindOf(value) ==
    IF value.k = "date" \/ (value.k = "string" /\ ~DateParse(value.v).nan) THEN "date"
    ELSE IF value.k = "number" THEN "number"
    ELSE IF value.k = "boolean" THEN "boolean"
    ELSE "other"

FormattedByKind(value, format) ==
    CASE KindOf(value) = "date" -> formatDateValue(value, format)
      [] KindOf(value) = "number" -> formatNumberValue(value, format)
      [] KindOf(value) = "boolean" -> formatBooleanValue(value, format)
      [] OTHER -> IF Falsy(format) THEN ValueToString(value) ELSE formatStringValue(ValueToString(value), format)

\* C7: the kind of the bound value alone selects the formatter, by first match
\* in the order date (instance or date-parseable string), number, boolean,
\* other (string directives if a spec is given, else plain coercion), and
\* exactly that one formatter is applied.
C7_FormatterByKind ==
    pc = "done" =>
        ResultIs({i \in Placeholders : HasBinding(i)},
                 [i \in 1..Len(ThePieces) |-> FormattedByKind(Bound(i), PieceFormat(i))])

\* A date-parseable string with the spec `upper`: formatted as a date (the spec
\* has no date token and comes out as it is), not upper-cased.
C7_Witness ==
    /\ pc = "done"
    /\ text = Chars("{{ds|upper}}")
    /\ Bound(1) = StringValue(Chars("2024-01-05"))
    /\ result = Chars("upper")

-----------------------------------------------------------------------------
(* Properties of the document operations (checked under Spec)              *)

\* The caller's element array.
TheElements == heap[ElementsRef]

ContainsBraces(value) ==
    value.k = "string" /\ \E j \in 1..(Len(value.v) - 1) : value.v[j] = "{" /\ value.v[j + 1] = "{"

NoPlaceholders(elems) ==
    \A i \in 1..Len(elems) : \A name \in {"text", "data", "src"} : ~ContainsBraces(Prop(elems[i].properties, name))

\* Every field of the element but properties, and every property but text,
\* data and src, is the input's.
OthersPassedThrough(in, out) ==
    /\ \A f \in {"id", "type", "x", "y", "width", "height", "rotation", "zIndex"} : out[f] = in[f]
    /\ DOMAIN out.properties = DOMAIN in.properties
    /\ \A name \in DOMAIN in.properties \ {"text", "data", "src"} : out.properties[name] = in.properties[name]

\* C8: processVariables is the identity on content without placeholders (same
\* length, same order, every element equal field for field), and in every case
\* passes through all element fields and all properties but text, data, src.
C8_SubstituteIdentity ==
    (lastCall.op = "processVariables" /\ ~lastCall.threw) =>
        /\ Len(heap[processed]) = Len(TheElements)
        /\ \A i \in 1..Len(TheElements) : OthersPassedThrough(TheElements[i], heap[processed][i])
        /\ NoPlaceholders(TheElements) => heap[processed] = TheElements

C8_Witness ==
    /\ lastCall.op = "processVariables"
    /\ Len(TheElements) = 3
    /\ NoPlaceholders(TheElements)
    /\ variables # <<>>
    /\ heap[processed] = TheElements

\* C9: no call changes the element array it is given (its order included), an
\* element, a properties bag or the bindings, whatever calls came before and
\* whoever made them (an array processVariables returned and a caller passes
\* on is not changed either); processVariables returns an array that is not
\* its input.
C9_InputsNotMutated ==
    [][/\ heap'[ElementsRef] = heap[ElementsRef]
       /\ variables' = variables
       /\ (processed # 0 /\ processed' = processed) => heap'[processed] = heap[processed]
       /\ processed' # ElementsRef]_vars

\* A generator has returned on a document that is not in zIndex order, and the
\* document still is not.
C9_Witness ==
    /\ lastCall.op \in {"generateZPL", "generateEPL"}
    /\ lastCall.ref = ElementsRef
    /\ lastCall.caller = NumCallers
    /\ \E i \in 1..(Len(TheElements) - 1) : ZKey(TheElements[i]) > ZKey(TheElements[i + 1])
    /\ processed # 0

\* The order a stable ascending sort by zIndex gives the indices of a list, a
\* missing zIndex counting as 0: by zIndex, equals in their input order.
ZIndexOf(element) == IF element.zIndex.k = "number" THEN element.zIndex.v ELSE 0
Before(elems, a, b) == ZIndexOf(elems[a]) < ZIndexOf(elems[b]) \/ (ZIndexOf(elems[a]) = ZIndexOf(elems[b]) /\ a < b)
StableOrder(elems) ==
    CHOOSE p \in [1..Len(elems) -> 1..Len(elems)] :
        \A a, b \in 1..Len(elems) : a < b => Before(elems, p[a], p[b])

\* The array a call was given: for generateCode the elements processVariables makes.
GivenTo(call) ==
    IF call.op \in {"generateCode:ZPL", "generateCode:EPL"} THEN processVariables(TheElements, variables).elements
    ELSE heap[call.ref]

\* C10: generateZPL and generateEPL write the blocks of the elements in
\* ascending zIndex order whatever the input order, a missing zIndex counting
\* as 0 and equal zIndex keeping the input order.
C10_BlocksInZOrder ==
    LET elems == GivenTo(lastCall)
        p == StableOrder(elems)
    IN  /\ (lastCall.op \in {"generateZPL", "generateCode:ZPL"} /\ ~lastCall.threw) =>
               \E options \in ZPLOptions :
                   output = ZPLHeader(LabelSize, options)
                            \o Blocks([i \in 1..Len(elems) |-> generateZPLElement(elems[p[i]])], 1) \o ZPLFooter
        /\ (lastCall.op \in {"generateEPL", "generateCode:EPL"} /\ ~lastCall.threw) =>
               \E options \in EPLOptions :
                   output = EPLHeader(LabelSize, options)
                            \o Blocks([i \in 1..Len(elems) |-> generateEPLElement(elems[p[i]])], 1) \o EPLFooter(options)

\* The elements A (zIndex 2), D (no zIndex) and B (zIndex 0), given in this
\* order, come out as D, B, A.
C10_Witness ==
    /\ lastCall.op = "generateZPL"
    /\ lastCall.ref = ElementsRef
    /\ Len(TheElements) = 3
    /\ <<TheElements[1].id, TheElements[2].id, TheElements[3].id>> = <<"A", "D", "B">>
    /\ output = ZPLHeader(LabelSize, DefaultZPLOptions) \o generateZPLElement(TheElements[2])
                \o generateZPLElement(TheElements[3]) \o generateZPLElement(TheElements[1]) \o ZPLFooter

\* C11: generateDPL writes its records in ascending zIndex order, equal
\* zIndex in input order: for A (zIndex 2) then B (zIndex 0), B's record is
\* before A's.
C11_DPLRecordsInZOrder ==
    LET elems == heap[lastCall.ref]
        p == StableOrder(elems)
    IN  lastCall.op = "generateDPL" =>
            output = DPLHeader(LabelSize)
                     \o Blocks([i \in 1..Len(elems) |-> generateDPLElement(elems[p[i]])], 1) \o DPLFooter

\* The lines of a returned string (each ends with a line feed).
Breaks(code) == {i \in 1..Len(code) : code[i] = NL}
Break(code, k) == IF k = 0 THEN 0 ELSE CHOOSE i \in Breaks(code) : Cardinality({j \in Breaks(code) : j <= i}) = k
LinesOf(code) == [k \in 1..Cardinality(Breaks(code)) |-> SubSeq(code, Break(code, k - 1) + 1, Break(code, k) - 1)]
Terminated(code) == code # <<>> /\ code[Len(code)] = NL

AnyPrefix(line, prefixes) == \E q \in prefixes : StartsWith(line, Chars(q))

\* The first lines of ls begin with the given prefixes, one line each.
HeaderIs(ls, prefixes) ==
    /\ Len(ls) > Len(prefixes)
    /\ \A i \in 1..Len(prefixes) : StartsWith(ls[i], prefixes[i])

\* The lines after the first n and before the last are element commands.
BodyIs(ls, n, commands) == \A i \in (n + 1)..(Len(ls) - 1) : AnyPrefix(ls[i], commands)

ZPLShape(code) ==
    LET ls == LinesOf(code)
        n == IF Len(ls) > 6 /\ StartsWith(ls[6], Chars("^TO")) THEN 6 ELSE 5
    IN  /\ Terminated(code)
        /\ HeaderIs(ls, <<Chars("^XA"), Chars("^PW"), Chars("^LL"), Chars("^PR"), Chars("^MD")>>)
        /\ ls[1] = Chars("^XA")
        /\ ls[Len(ls)] = Chars("^XZ")
        /\ BodyIs(ls, n, {"^FO"})

EPLShape(code) ==
    LET ls == LinesOf(code)
    IN  /\ Terminated(code)
        /\ HeaderIs(ls, <<<<"N">>, <<"S">>, <<"D">>, Chars("ZT"), <<"q">>, <<"Q">>>>)
        /\ ls[1] = <<"N">>
        /\ ls[4] = Chars("ZT")
        /\ StartsWith(ls[Len(ls)], <<"P">>)
        /\ BodyIs(ls, 6, {"A", "LO", "X", "B", "GW"})

DPLShape(code) ==
    LET ls == LinesOf(code)
    IN  /\ Terminated(code)
        /\ HeaderIs(ls, << <<STX, "L">>, <<"H">>, <<"W">>, Chars("Q1")>>)
        /\ ls[1] = <<STX, "L">>
        /\ ls[Len(ls)] = <<"E">>
        /\ BodyIs(ls, 4, {"1911A", "12311"})

\* C12: every generator output is header, element blocks, footer, for every
\* element list, the empty one included: no element command is before the
\* last header directive and none after the footer.
C12_HeaderBlocksFooter ==
    /\ (lastCall.op \in {"generateZPL", "generateCode:ZPL"} /\ ~lastCall.threw) => ZPLShape(output)
    /\ (lastCall.op \in {"generateEPL", "generateCode:EPL"} /\ ~lastCall.threw) => EPLShape(output)
    /\ lastCall.op = "generateDPL" => DPLShape(output)

\* The empty element list gives the header and the footer alone.
C12_Witness ==
    /\ lastCall.op = "generateEPL"
    /\ TheElements = <<>>
    /\ output = Line(<<"N">>) \o Line(Chars("S4")) \o Line(Chars("D1")) \o Line(Chars("ZT"))
                \o Line(Chars("q400")) \o Line(Chars("Q300,26")) \o Line(Chars("P3"))

\* C16: asking generateCode for a format it does not support raises an error
\* and returns no code of another protocol; nothing else raises one.
C16_UnsupportedFormatIsAnError ==
    /\ lastCall.op = "generateCode:PDF" => (lastCall.threw /\ output = <<>>)
    /\ lastCall.op \in {"generateCode:ZPL", "generateCode:EPL"} => ~lastCall.threw

-----------------------------------------------------------------------------
(* Properties of the generators on unusual elements (checked under         *)
(* UnusualSpec)                                                            *)

Contains(code, pattern) ==
    \E i \in 1..(Len(code) - Len(pattern) + 1) : SubSeq(code, i, i + Len(pattern) - 1) = pattern

EndsWith(line, suffix) ==
    Len(line) >= Len(suffix) /\ SubSeq(line, Len(line) - Len(suffix) + 1, Len(line)) = suffix

\* The array the last call was given.
Given == heap[lastCall.ref]

IsGeneratorCall == lastCall.op \in {"generateZPL", "generateEPL", "generateDPL"}

KnownSymbol(element) ==
    LET type == Default(Prop(element.properties, "type"), StringValue(Chars("CODE128")))
    IN  type.k = "string" /\ \E key \in DOMAIN BARCODE_TYPES : Chars(key) = type.v

TextOrKnownBarcode(element) ==
    element.type = "text" \/ (element.type = "barcode" /\ KnownSymbol(element))

ElementLines(code) == {k \in DOMAIN LinesOf(code) : StartsWith(LinesOf(code)[k], Chars("^FO"))}

\* C13: processVariables then generateZPL (generateCode('ZPL')) over text
\* elements and barcodes with known symbols gives one block per element,
\* between ^XA and ^XZ, and the text Hi {{name}} with name bound to Doe is
\* written as Hi Doe.
C13_PipelineOneBlockPerElement ==
    (lastCall.op = "generateCode:ZPL" /\ \A i \in 1..Len(TheElements) : TextOrKnownBarcode(TheElements[i])) =>
        /\ ~lastCall.threw
        /\ ZPLShape(output)
        /\ Cardinality(ElementLines(output)) = Len(TheElements)
        /\ \A i \in 1..Len(TheElements) :
               (TheElements[i].type = "text" /\ Prop(TheElements[i].properties, "text") = Lit("Hi {{name}}")
                    /\ Name("name") \in DOMAIN variables /\ variables[Name("name")] = Lit("Doe")) =>
                   \E k \in ElementLines(output) : EndsWith(LinesOf(output)[k], Chars("^FDHi Doe^FS"))

\* The types a protocol has an encoder for.
Encoded(op) ==
    CASE op = "generateZPL" -> {"text", "line", "box", "circle", "image", "barcode"}
      [] op = "generateEPL" -> {"text", "line", "box", "image", "barcode"}
      [] OTHER -> {"text", "barcode"}

HasEncoder(element) == element.type \in Encoded(lastCall.op)

\* The output of the last call is what the same call gives on elems.
OutputAsOn(elems) ==
    LET h == (ElementsRef :> elems)
    IN  CASE lastCall.op = "generateZPL" ->
                \E options \in ZPLOptions : output = generateZPL(h, ElementsRef, LabelSize, options).code
          [] lastCall.op = "generateEPL" ->
                \E options \in EPLOptions : output = generateEPL(h, ElementsRef, LabelSize, options).code
          [] OTHER -> output = generateDPL(h, ElementsRef, LabelSize).code

\* C14: an element whose type the protocol has no encoder for (an unknown
\* type; line, box, circle, image in DPL) adds nothing to the output and
\* raises nothing: the output is that of the list without such elements.
C14_NoEncoderNoOutput ==
    IsGeneratorCall => (~lastCall.threw /\ OutputAsOn(SelectSeq(Given, HasEncoder)))

C14_Witness ==
    /\ lastCall.op = "generateEPL"
    /\ Len(Given) = 2
    /\ Given[1].type = "polygon"
    /\ Given[2].type = "text"
    /\ \E k \in DOMAIN LinesOf(output) : StartsWith(LinesOf(output)[k], Chars("A3,-2,0,3,1,1,N,"))
    /\ Len(LinesOf(output)) = 8

HasTableSymbol(element) == element.type # "barcode" \/ KnownSymbol(element)

\* C15: in the three generators a barcode whose symbol key is not in
\* BARCODE_TYPES (NOPE) adds nothing to the output and raises nothing: the
\* output is that of the list without such barcodes.
C15_UnknownSymbolNoOutput ==
    IsGeneratorCall => (~lastCall.threw /\ OutputAsOn(SelectSeq(Given, HasTableSymbol)))

\* The whole number nearest to t tenths, a half going away from zero.
RoundHalfAway(t) == IF t >= 0 THEN (t + 5) \div 10 ELSE -((5 - t) \div 10)
Whole(value) == IntToString(RoundHalfAway(value.v))

\* What the command of a text element, or of a line, begins with when its
\* numbers are rounded half away from zero.
RoundedCommand(element) ==
    LET x == element.x
        y == element.y
        thickness == Default(Prop(element.properties, "thickness"), NumberValue(10))
    IN  CASE lastCall.op = "generateZPL" /\ element.type = "text" ->
                Chars("^FO") \o Whole(x) \o Comma \o Whole(y) \o Chars("^A")
          [] lastCall.op = "generateEPL" /\ element.type = "text" ->
                <<"A">> \o Whole(x) \o Comma \o Whole(y) \o Comma
          [] lastCall.op = "generateDPL" /\ element.type = "text" ->
                Chars("1911A0100000000") \o PadStart(Whole(x), 4, "0") \o PadStart(Whole(y), 4, "0")
          [] lastCall.op = "generateEPL" /\ element.type = "line" ->
                Chars("LO") \o Whole(x) \o Comma \o Whole(y) \o Comma \o Whole(element.width) \o Comma
                \o Whole(IF thickness.v > 10 THEN thickness ELSE NumberValue(10))
          [] OTHER -> <<>>

HasNumbers(element) == \A f \in {"x", "y", "width", "height"} : IsNumber(element[f])

\* C17: every coordinate and size a generator writes is the source value
\* rounded half away from zero (2.5 to 3, -2.5 to -3).
C17_RoundHalfAwayFromZero ==
    IsGeneratorCall =>
        \A i \in 1..Len(Given) :
            (HasNumbers(Given[i]) /\ Given[i].type \in {"text", "line"}) =>
                \E k \in DOMAIN LinesOf(output) : StartsWith(LinesOf(output)[k], RoundedCommand(Given[i]))

\* C18: geometry that is NaN or undefined is written as 0: the output of a
\* generator never holds the text NaN or undefined.
C18_InvalidGeometryIsZero ==
    IsGeneratorCall => (~Contains(output, Chars("NaN")) /\ ~Contains(output, Chars("undefined")))

-----------------------------------------------------------------------------
(* Properties of calculateBarcodeChecksum (checked under ChecksumSpec)     *)

Returned == pc = "done"

\* The digit at the 0-based position i of a payload.
DigitAt(d, i) == IndexOf(d[i + 1], Digits) - 1

\* The sum of d[i] * w[i] over the positions 0..n-1, w being weightEven at the
\* even positions and weightOdd at the odd ones.
RECURSIVE WeightedSum(_, _, _, _)
WeightedSum(d, n, weightEven, weightOdd) ==
    IF n = 0 THEN 0
    ELSE WeightedSum(d, n - 1, weightEven, weightOdd)
         + DigitAt(d, n - 1) * (IF (n - 1) % 2 = 0 THEN weightEven ELSE weightOdd)

Mod10Digit(sum) == (10 - (sum % 10)) % 10

\* The case C19 is about: the weighted sum of the payload for the symbol.
SumFor(d, key) == IF key = "EAN13" THEN WeightedSum(d, 12, 1, 3) ELSE WeightedSum(d, 11, 3, 1)

HasRuleFor(d, key) ==
    AllDigits(d) /\ ((key = "EAN13" /\ Len(d) = 12) \/ (key = "UPC_A" /\ Len(d) = 11))

\* C19: for a 12-digit payload and EAN13 the result is (10 - sum mod 10) mod
\* 10 with the weights 1 at even and 3 at odd positions counted from 0; for
\* an 11-digit payload and UPC_A the same with 3 at even and 1 at odd
\* positions. The result is one digit and sum + result is divisible by 10.
C19_ChecksumFormula ==
    (Returned /\ HasRuleFor(text, symbol)) =>
        /\ result.k = "int"
        /\ result.v = Mod10Digit(SumFor(text, symbol))
        /\ result.v \in 0..9
        /\ (SumFor(text, symbol) + result.v) % 10 = 0

\* 123456789012 has the EAN13 check digit 8 (sum 92) and 12345678901 the
\* UPC_A check digit 2 (sum 98); one of them has been computed.
C19_Witness ==
    /\ Returned
    /\ \/ symbol = "EAN13" /\ text = Chars("123456789012") /\ result = [k |-> "int", v |-> 8]
       \/ symbol = "UPC_A" /\ text = Chars("12345678901") /\ result = [k |-> "int", v |-> 2]

\* C20: null is returned only for a symbol without a checksum rule: for
\* EAN13 and UPC_A and a payload of digits the result is a check digit, as
\* for the 11 digits 12345678901 with EAN13.
C20_NullOnlyWithoutRule ==
    (Returned /\ symbol \in {"EAN13", "UPC_A"} /\ text # <<>> /\ AllDigits(text)) =>
        /\ result # NullValue
        /\ result.k = "int" /\ result.v \in 0..9

-----------------------------------------------------------------------------
(* Properties of validateBarcodeData (checked under ValidateSpec)          *)

\* A-Z, 0-9, - . $ / + % and the space
Code39Charset == Range(UpperLetters) \cup Range(Digits) \cup {"-", ".", "$", "/", "+", "%", " "}

\* The number of bytes of the UTF-8 form of a payload: é takes 2, € takes 3.
Utf8Length(d) ==
    Len(d) + Cardinality({i \in 1..Len(d) : d[i] = "é"}) + 2 * Cardinality({i \in 1..Len(d) : d[i] = "€"})

SatisfiesRule(d, key) ==
    /\ d # <<>>
    /\ key = "EAN13" => (Len(d) \in {12, 13} /\ \A i \in 1..Len(d) : d[i] \in Range(Digits))
    /\ key = "CODE39" => \A i \in 1..Len(d) : d[i] \in Code39Charset
    /\ key = "QR" => Utf8Length(d) <= 2953

\* C21: validateBarcodeData(data, symbol) is true exactly when data satisfies
\* the rule of the symbol: 12 or 13 digits for EAN13, the restricted charset
\* for CODE39, at most 2953 bytes for QR; empty data is never valid.
C21_ValidExactlyByRule ==
    (Returned /\ symbol \in {"EAN13", "CODE39", "QR"}) => (result = SatisfiesRule(text, symbol))

-----------------------------------------------------------------------------
(* Properties of the generators on rotated elements and on the symbols of  *)
(* the table (checked under RotatedSpec)                                   *)

\* N, R, I, B for 0, 90, 180, 270
OrientationLetter(r) == CASE r = 0 -> "N" [] r = 90 -> "R" [] r = 180 -> "I" [] r = 270 -> "B"

\* The rotation field of the one element given, in degrees.
RotationField == Given[1].rotation.v \div 10

TheSymbol == SymbolKey(Given[1].properties["type"])

\* What the command of the one element given holds when the orientation is
\* that of its rotation field.
OrientedCommand ==
    CASE lastCall.op = "generateZPL" /\ Given[1].type = "text" ->
            Chars("^FO10,20^AA") \o <<OrientationLetter(RotationField)>> \o Comma
      [] lastCall.op = "generateZPL" /\ Given[1].type = "barcode" ->
            Chars("^FO10,80") \o Chars(BARCODE_TYPES[TheSymbol].zpl) \o <<OrientationLetter(RotationField)>> \o Comma
      [] lastCall.op = "generateEPL" /\ Given[1].type = "text" ->
            Chars("A10,20,") \o IntToString((RotationField \div 90) % 4) \o Comma
      [] lastCall.op = "generateEPL" /\ Given[1].type = "barcode" ->
            Chars("B10,80,") \o IntToString((RotationField \div 90) % 4) \o Comma

RotatedCall == lastCall.op \in {"generateZPL", "generateEPL"} /\ Len(Given) = 1 /\ Given[1].id \in {"R", "S"}

\* C22: the rotation field of a text or barcode element gives the
\* orientation written: N, R, I, B for 0, 90, 180, 270 in ZPL, and
\* rotation/90 mod 4 in EPL.
C22_RotationFieldGivesOrientation ==
    RotatedCall => Contains(output, OrientedCommand)

TwoDimensional == {"QR", "DATAMATRIX", "PDF417", "AZTEC", "MAXICODE"}

ShowsText == Given[1].properties["showText"].v

\* C23: in ZPL a 2D symbol (QR, DATAMATRIX, PDF417, AZTEC, MAXICODE) is
\* written with the parameter tuple and never with the Y/N flag; a 1D symbol
\* is written with the flag, Y iff showText, and never with the tuple.
C23_TupleFor2DFlagFor1D ==
    (RotatedCall /\ lastCall.op = "generateZPL" /\ Given[1].type = "barcode") =>
        IF TheSymbol \in TwoDimensional
        THEN /\ Contains(output, Chars(",60,Q,7,A,0,0^FD"))
             /\ ~Contains(output, Chars(",60,Y^FD"))
             /\ ~Contains(output, Chars(",60,N^FD"))
        ELSE /\ Contains(output, Chars(",60,") \o <<IF ShowsText THEN "Y" ELSE "N">> \o Chars("^FD"))
             /\ ~Contains(output, Chars(",Q,7,A,0,0"))

\* The one element given with another symbol key.
WithSymbol(key) == <<[Given[1] EXCEPT !.properties["type"] = Lit(key)]>>

\* C30: within ZPL and within EPL distinct symbol keys have distinct command
\* fragments: a barcode that differs from the one given only in its symbol
\* never gives the same output.
C30_SymbolTableInjective ==
    (RotatedCall /\ Given[1].type = "barcode") =>
        \A key \in DOMAIN BARCODE_TYPES \ {TheSymbol} : ~OutputAsOn(WithSymbol(key))

-----------------------------------------------------------------------------
(* Properties of the DPL records (checked under UnusualSpec) and of the    *)
(* ZPL header (checked under Spec)                                         *)

\* The fixed part a DPL record begins with, and the number of coordinate
\* fields after it.
RecordPrefix(element) ==
    IF element.type = "text" THEN Chars("1911A0100000000") ELSE Chars("1231100000000")
RecordFields(element) == IF element.type = "text" THEN 2 ELSE 3
RecordPayload(element) ==
    Str(Prop(element.properties, IF element.type = "text" THEN "text" ELSE "data"))

\* line is the prefix, fields of exactly 4 decimal digits, then the payload.
FixedWidth(line, element) ==
    LET start == Len(RecordPrefix(element))
        width == 4 * RecordFields(element)
    IN  /\ StartsWith(line, RecordPrefix(element))
        /\ Len(line) = start + width + Len(RecordPayload(element))
        /\ \A j \in (start + 1)..(start + width) : line[j] \in Range(Digits)
        /\ SubSeq(line, start + width + 1, Len(line)) = RecordPayload(element)

\* C24: in DPL each coordinate field (x, y, the barcode height) of a text or
\* barcode record is exactly 4 decimal digits, so the payload starts at the
\* same column whatever the coordinates.
C24_FixedWidthRecords ==
    lastCall.op = "generateDPL" =>
        \A i \in 1..Len(Given) :
            Given[i].type \in {"text", "barcode"} =>
                \E k \in DOMAIN LinesOf(output) : FixedWidth(LinesOf(output)[k], Given[i])

\* The ^PW and ^LL lines of a ZPL string.
Dimensions(code) == <<LinesOf(code)[2], LinesOf(code)[3]>>

\* C25: the print width and label length of the ZPL header are the dots of
\* the canvas size at options.dpi, so they depend on the dpi option: the
\* output of a call with another dpi than 203 has other ^PW and ^LL lines
\* than the output of the same call with 203.
C25_HeaderDependsOnDpi ==
    lastCall.op = "generateZPL" =>
        \A options \in ZPLOptions :
            (options.dpi # DefaultZPLOptions.dpi
                /\ output = generateZPL(heap, lastCall.ref, LabelSize, options).code) =>
                Dimensions(output)
                    # Dimensions(generateZPL(heap, lastCall.ref, LabelSize, DefaultZPLOptions).code)

-----------------------------------------------------------------------------
(* Properties of the designer (checked under EditorSpec)                   *)

\* C26: the history holds at most 50 entries, and historyIndex is -1 with an
\* empty history or an index into it (0 <= historyIndex < history.length).
C26_HistoryIndexValid ==
    /\ Len(state.history) <= 50
    /\ IF state.history = <<>> THEN state.historyIndex = -1
       ELSE state.historyIndex >= 0 /\ state.historyIndex < Len(state.history)

\* C27: a REDO that follows an UNDO which changed the element list, no edit
\* (add, update, delete, duplicate, paste, load) having been made between
\* them, gives the element list there was before the UNDO, wherever the
\* auto-save timeout fired.
C27_RedoRestoresUndone ==
    session.redone # Null => state.elements = session.redone[1]

\* The element the most recent add, duplicate or paste made, when the list
\* still holds it.
Newest == Find(state.elements, session.created[1])

\* C28: after ADD_ELEMENT, DUPLICATE_ELEMENT, PASTE_ELEMENT and
\* DELETE_ELEMENT actions only, the element the most recent add, duplicate or
\* paste made has a zIndex greater than or equal to that of every other
\* element.
C28_NewestOnTop ==
    (session.plain /\ session.created # Null /\ Newest # Null) =>
        \A i \in 1..Len(state.elements) : state.elements[i].zIndex.v <= Newest[1].zIndex.v

\* C29: once an image has been chosen in the uploader, the element list is
\* the list there was with one image element more, whose properties.src is
\* the image chosen; nothing was raised and no earlier element has changed.
C29_ImageAppended ==
    session.last = "imageSelect" =>
        /\ ~session.threw
        /\ Len(state.elements) = Len(session.before) + 1
        /\ SubSeq(state.elements, 1, Len(session.before)) = session.before
        /\ state.elements[Len(state.elements)].type = "image"
        /\ state.elements[Len(state.elements)].properties["src"] = ImageData

====
